---- MODULE Spec2Model ----
(***************************************************************************)
(* license-guardian: dependency-license compliance checker.                *)
(*                                                                         *)
(* The model follows src/src/checker.ts.  JavaScript values are tagged     *)
(* records (the code is dynamically typed at run time: whatever JSON.parse *)
(* returns flows through the checker), strings are TLA+ strings handled    *)
(* character by character, the filesystem is a function from absolute      *)
(* paths to nodes, and an exception is a result record with threw = TRUE.  *)
(***************************************************************************)
EXTENDS Integers, Sequences, FiniteSets, TLC

VARIABLES
    fs,       \* the filesystem the checker reads
    call,     \* the call in progress with its arguments and outcome, or NoCall
    reports,  \* the reports checkLicenses returned so far, as returned, oldest first
    defaults, \* the module's array DEFAULT_ALLOWED_LICENSES as it is now
    received  \* the lists a caller keeps of those it was given, oldest first

vars == <<fs, call, reports, defaults, received>>

-----------------------------------------------------------------------------
(* Bounds of the model.                                                    *)

\* longest license string enumerated exhaustively over Alphabet
MaxLicenseLen == 3
\* longest allowlist enumerated for isLicenseAllowed
MaxAllowed == 2
\* most dependencies one workspace declares
MaxDeps == 2
\* deepest chain of nested directories below the project root
MaxDepth == 2
\* most calls whose list or report a caller keeps, over one filesystem state
MaxRuns == 2

-----------------------------------------------------------------------------
(* JavaScript values.                                                      *)

Undefined == [t |-> "undefined"]
Null == [t |-> "null"]
Str(s) == [t |-> "str", s |-> s]
Num(n) == [t |-> "num", n |-> n]
Bool(b) == [t |-> "bool", b |-> b]
Arr(items) == [t |-> "arr", items |-> items]
\* an object keeps its own string keys in insertion order
Obj(keys, vals) == [t |-> "obj", keys |-> keys, vals |-> vals]
EmptyObj == Obj(<<>>, <<>>)

\* the outcome of a call: a returned value or a thrown exception
Ret(v) == [threw |-> FALSE, val |-> v]
Throw == [threw |-> TRUE]

\* ToBoolean: what `!x` and `x || y` test
Truthy(v) ==
    CASE v.t = "undefined" -> FALSE
      [] v.t = "null" -> FALSE
      [] v.t = "bool" -> v.b
      [] v.t = "num" -> v.n # 0
      [] v.t = "str" -> v.s # ""
      [] OTHER -> TRUE

\* Or with a slip: an empty array counts as missing, as in languages where an
\* empty list is falsy
OrEmptyArrayFalsy(a, b) == IF Truthy(a) /\ a # Arr(<<>>) THEN a ELSE b

\* a || b
Or(a, b) == IF Truthy(a) THEN a ELSE b

IndexOf(seq, x) ==
    IF \E i \in 1..Len(seq) : seq[i] = x
    THEN CHOOSE i \in 1..Len(seq) : seq[i] = x /\ \A j \in 1..(i - 1) : seq[j] # x
    ELSE 0

\* v.key for a value that is not null or undefined (those throw, see HasProps)
GetProp(v, key) ==
    IF v.t = "obj" /\ IndexOf(v.keys, key) # 0
    THEN v.vals[IndexOf(v.keys, key)]
    ELSE Undefined

\* reading a property of null or undefined throws a TypeError
HasProps(v) == v.t \notin {"undefined", "null"}

Digits == <<"0", "1", "2", "3", "4", "5", "6", "7", "8", "9">>

RECURSIVE NatToString(_)
NatToString(n) ==
    IF n < 10 THEN Digits[n + 1]
    ELSE NatToString(n \div 10) \o Digits[(n % 10) + 1]

\* JsString: the coercion of template strings and of RegExp.prototype.test
RECURSIVE JsString(_)
RECURSIVE JoinItems(_, _, _)
JsString(v) ==
    CASE v.t = "str" -> v.s
      [] v.t = "num" -> NatToString(v.n)
      [] v.t = "bool" -> IF v.b THEN "true" ELSE "false"
      [] v.t = "null" -> "null"
      [] v.t = "undefined" -> "undefined"
      [] v.t = "arr" -> JoinItems(v.items, ",", 1)
      [] OTHER -> "[object Object]"

\* Array.prototype.join from index i on: null and undefined items print empty
JoinItems(items, sep, i) ==
    IF i > Len(items) THEN ""
    ELSE (IF items[i].t \in {"null", "undefined"} THEN "" ELSE JsString(items[i]))
         \o (IF i < Len(items) THEN sep ELSE "")
         \o JoinItems(items, sep, i + 1)

-----------------------------------------------------------------------------
(* Strings.                                                                *)

LowerCase == "abcdefghijklmnopqrstuvwxyz"
UpperCase == "ABCDEFGHIJKLMNOPQRSTUVWXYZ"

CharAt(s, i) == SubSeq(s, i, i)

LowerLetters == {CharAt(LowerCase, i) : i \in 1..Len(LowerCase)}

\* the upper-case letter of each lower-case letter
UpperOf ==
    [c \in LowerLetters |->
        CharAt(UpperCase, CHOOSE i \in 1..Len(LowerCase) : CharAt(LowerCase, i) = c)]

UpperChar(c) == IF c \in LowerLetters THEN UpperOf[c] ELSE c

\* String.prototype.toUpperCase
RECURSIVE toUpperCase(_)
toUpperCase(s) ==
    IF s = "" THEN "" ELSE UpperChar(CharAt(s, 1)) \o toUpperCase(Tail(s))

\* includes with a slip: the whole string has to equal the search string
includesExact(s, search) == s = search

\* String.prototype.includes
includes(s, search) ==
    \E i \in 1..(Len(s) - Len(search) + 1) : SubSeq(s, i, i + Len(search) - 1) = search

-----------------------------------------------------------------------------
(* Compliance evaluation: isLicenseAllowed.                                *)

DEFAULT_ALLOWED_LICENSES ==
    Arr(<<Str("MIT"), Str("Apache-2.0"), Str("BSD-2-Clause"), Str("BSD-3-Clause"),
          Str("ISC"), Str("0BSD"), Str("CC0-1.0"), Str("Python-2.0"), Str("Unlicense")>>)

PROHIBITED_PATTERNS == <<"GPL", "LGPL", "AGPL", "SSPL", "BUSL", "Copyleft">>

\* PatternTest with a slip: the i flag is missing
PatternTestCaseSensitive(pattern, s) == includes(s, pattern)

\* /pattern/i.test(s): the literal pattern occurs in s, letters compared
\* without regard to case
PatternTest(pattern, s) == includes(toUpperCase(s), toUpperCase(pattern))

\* SomeIncluded with a slip: only the item at i is tested, the rest of the
\* list is ignored
SomeIncludedFirstOnly(normalizedLicense, items, i) ==
    IF i > Len(items) THEN Ret(FALSE)
    ELSE IF items[i].t # "str" THEN Throw
    ELSE Ret(includes(normalizedLicense, toUpperCase(items[i].s)))

\* allowedLicenses.some((allowed) => normalizedLicense.includes(allowed.toUpperCase()))
\* from item i on: stops at the first hit, throws at an item without toUpperCase
RECURSIVE SomeIncluded(_, _, _)
SomeIncluded(normalizedLicense, items, i) ==
    IF i > Len(items) THEN Ret(FALSE)
    ELSE IF items[i].t # "str" THEN Throw
    ELSE IF includes(normalizedLicense, toUpperCase(items[i].s)) THEN Ret(TRUE)
    ELSE SomeIncluded(normalizedLicense, items, i + 1)

\* isLicenseAllowed with a slip: the guard for a missing license is left out
isLicenseAllowedNoSentinel(license, allowedLicenses) ==
    IF \E i \in 1..Len(PROHIBITED_PATTERNS) :
            PatternTest(PROHIBITED_PATTERNS[i], JsString(license))
    THEN Ret(FALSE)
    ELSE IF license.t # "str" THEN Throw
    ELSE IF allowedLicenses.t # "arr" THEN Throw
    ELSE SomeIncluded(toUpperCase(license.s), allowedLicenses.items, 1)

\* isLicenseAllowed with a slip: the UNKNOWN sentinel is not rejected up front
\* and goes on to the allowlist like any other license
isLicenseAllowedSentinelListed(license, allowedLicenses) ==
    IF ~Truthy(license) THEN Ret(FALSE)
    ELSE IF \E i \in 1..Len(PROHIBITED_PATTERNS) :
                PatternTest(PROHIBITED_PATTERNS[i], JsString(license))
    THEN Ret(FALSE)
    ELSE IF license.t # "str" THEN Throw
    ELSE IF allowedLicenses.t # "arr" THEN Throw
    ELSE SomeIncluded(toUpperCase(license.s), allowedLicenses.items, 1)

isLicenseAllowed(license, allowedLicenses) ==
    IF ~Truthy(license) \/ license = Str("UNKNOWN") THEN Ret(FALSE)
    ELSE IF \E i \in 1..Len(PROHIBITED_PATTERNS) :
                PatternTest(PROHIBITED_PATTERNS[i], JsString(license))
    THEN Ret(FALSE)
    ELSE IF license.t # "str" THEN Throw
    ELSE IF allowedLicenses.t # "arr" THEN Throw
    ELSE SomeIncluded(toUpperCase(license.s), allowedLicenses.items, 1)

-----------------------------------------------------------------------------
(* The filesystem: node:fs and node:path as the checker uses them.         *)

\* process.cwd(): the project root
cwd == "/r"

Dir(entries) == [kind |-> "dir", entries |-> entries, readable |-> TRUE]
File(content) == [kind |-> "file", content |-> content, readable |-> TRUE]
\* a node whose permission bits deny reading (and, for a directory, searching)
Locked(node) == [node EXCEPT !.readable = FALSE]

\* the text of a file that is not JSON
InvalidText == [t |-> "invalid"]

\* path.join(dir, name) for a plain entry name
join(dir, name) == dir \o "/" \o name

RECURSIVE LastSlash(_, _)
LastSlash(p, i) == IF i = 0 \/ CharAt(p, i) = "/" THEN i ELSE LastSlash(p, i - 1)

\* path.dirname(p); "" above the first component
dirname(p) == SubSeq(p, 1, LastSlash(p, Len(p)) - 1)

\* a symbolic link to the absolute path target
Link(target) == [kind |-> "link", target |-> target, readable |-> TRUE]

\* path.basename(p)
basename(p) == SubSeq(p, LastSlash(p, Len(p)) + 1, Len(p))

RECURSIVE Components(_)
\* the components of an absolute path, outermost first
Components(p) == IF p = "" THEN <<>> ELSE Append(Components(dirname(p)), basename(p))

\* path resolution as the system calls do it, component by component from the
\* canonical directory at ("" above the first component): a directory on the
\* way must be searchable, every component must exist, and a symbolic link is
\* followed wherever it stands, up to hops of them
RECURSIVE Resolve(_, _, _, _)
Resolve(f, at, names, hops) ==
    IF names = <<>> THEN Ret(at)
    ELSE IF at # "" /\ ~(f[at].kind = "dir" /\ f[at].readable) THEN Throw
    ELSE IF join(at, Head(names)) \notin DOMAIN f THEN Throw
    ELSE IF f[join(at, Head(names))].kind = "link"
    THEN IF hops = 0 THEN Throw
         ELSE Resolve(f, "", Components(f[join(at, Head(names))].target) \o Tail(names),
                      hops - 1)
    ELSE Resolve(f, join(at, Head(names)), Tail(names), hops)

\* the canonical path of p, or a throw
Canonical(f, p) == Resolve(f, "", Components(p), Cardinality(DOMAIN f))

\* readdirSync with a slip: isDirectory is answered for what a link points to,
\* as statSync would
readdirSyncFollowingLinks(f, dir) ==
    LET isDir(path) ==
            LET target(real) == ~real.threw /\ f[real.val].kind = "dir"
            IN  target(Canonical(f, path))
        entriesAt(real) ==
            IF real.threw THEN Throw
            ELSE IF f[real.val].kind = "dir" /\ f[real.val].readable
            THEN Ret([i \in 1..Len(f[real.val].entries) |->
                        [name |-> f[real.val].entries[i],
                         isDirectory |-> isDir(join(real.val, f[real.val].entries[i]))]])
            ELSE Throw
    IN  entriesAt(Canonical(f, dir))

\* readdirSync(dir, { withFileTypes: true }): the entries as the directory
\* holds them, which is in the byte order of their names whatever the order
\* they were made in, each with its name and whether the entry itself is a
\* directory (a link to a directory is not)
readdirSync(f, dir) ==
    LET entriesAt(real) ==
            IF real.threw THEN Throw
            ELSE IF f[real.val].kind = "dir" /\ f[real.val].readable
            THEN Ret([i \in 1..Len(f[real.val].entries) |->
                        [name |-> f[real.val].entries[i],
                         isDirectory |->
                             f[join(real.val, f[real.val].entries[i])].kind = "dir"]])
            ELSE Throw
    IN  entriesAt(Canonical(f, dir))

\* readFileSync(path, "utf-8")
readFileSync(f, path) ==
    LET contentAt(real) ==
            IF real.threw THEN Throw
            ELSE IF f[real.val].kind = "file" /\ f[real.val].readable
            THEN Ret(f[real.val].content)
            ELSE Throw
    IN  contentAt(Canonical(f, path))

\* realpathSync(path): the canonical path of an existing path
realpathSync(f, path) == Canonical(f, path)

\* the value of a decimal digit
DigitOf(c) == CHOOSE d \in 0..9 : Digits[d + 1] = c

\* an array index: the canonical decimal string of an integer from 0 to
\* 2^32 - 2; such keys are enumerated before all others
IsArrayIndex(key) ==
    /\ key # ""
    /\ \A i \in 1..Len(key) : \E d \in 1..10 : Digits[d] = CharAt(key, i)
    /\ Len(key) = 1 \/ CharAt(key, 1) # "0"
    /\ \/ Len(key) < 10
       \/ /\ Len(key) = 10
          /\ \/ key = "4294967294"
             \/ \E i \in 1..10 :
                    /\ SubSeq(key, 1, i - 1) = SubSeq("4294967294", 1, i - 1)
                    /\ DigitOf(CharAt(key, i)) < DigitOf(CharAt("4294967294", i))

\* a < b as numbers, for array indices a and b
IndexLess(a, b) ==
    \/ Len(a) < Len(b)
    \/ /\ Len(a) = Len(b)
       /\ \E i \in 1..Len(a) :
              /\ SubSeq(a, 1, i - 1) = SubSeq(b, 1, i - 1)
              /\ DigitOf(CharAt(a, i)) < DigitOf(CharAt(b, i))

RECURSIVE InsertIndex(_, _)
\* the ascending sequence sorted with the array index key put in its place
InsertIndex(sorted, key) ==
    IF sorted = <<>> THEN <<key>>
    ELSE IF IndexLess(key, Head(sorted)) THEN <<key>> \o sorted
    ELSE <<Head(sorted)>> \o InsertIndex(Tail(sorted), key)

RECURSIVE SortIndices(_)
SortIndices(keys) ==
    IF keys = <<>> THEN <<>> ELSE InsertIndex(SortIndices(Tail(keys)), Head(keys))

\* the order in which an object lists its own string keys: the array indices
\* in ascending numeric order, then the other keys in the order they were added
OwnPropertyKeys(keys) ==
    LET isName(key) == ~IsArrayIndex(key)
    IN  SortIndices(SelectSeq(keys, IsArrayIndex)) \o SelectSeq(keys, isName)

RECURSIVE Parsed(_)
\* the value JSON.parse builds for a document: the members of an object are
\* added in the order of the text and listed in the order of its own keys
Parsed(doc) ==
    CASE doc.t = "obj" ->
            LET build(keys) == Obj(keys, [i \in 1..Len(keys) |-> Parsed(GetProp(doc, keys[i]))])
            IN  build(OwnPropertyKeys(doc.keys))
      [] doc.t = "arr" -> Arr([i \in 1..Len(doc.items) |-> Parsed(doc.items[i])])
      [] OTHER -> doc

\* JSON.parse(text) for the document a file holds, keys in the order of the text
JSONparse(text) == IF text.t = "invalid" THEN Throw ELSE Ret(Parsed(text))

-----------------------------------------------------------------------------
(* Configuration loading.                                                  *)

\* loadConfig(configPath?) when the module's array DEFAULT_ALLOWED_LICENSES is
\* the object array: configPath is Undefined when the argument is omitted,
\* and every fallback returns the array itself, not a copy of it
loadConfigFrom(f, configPath, array) ==
    LET path == IF Truthy(configPath) THEN configPath.s
                ELSE join(cwd, ".licenserc.json")
        parsed(config) ==
            IF config.threw THEN Ret(array)
            ELSE IF ~HasProps(config.val) THEN Ret(array)
            ELSE Ret(Or(GetProp(config.val, "allowedLicenses"), array))
        read(text) ==
            IF text.threw THEN Ret(array)
            ELSE parsed(JSONparse(text.val))
    IN  read(readFileSync(f, path))

\* loadConfig with a slip: the configured list is added to the defaults
\* instead of replacing them
loadConfigMerged(f, configPath) ==
    LET path == IF Truthy(configPath) THEN configPath.s
                ELSE join(cwd, ".licenserc.json")
        listed(allowed) ==
            IF allowed.t = "arr"
            THEN Ret(Arr(allowed.items \o DEFAULT_ALLOWED_LICENSES.items))
            ELSE Ret(Or(allowed, DEFAULT_ALLOWED_LICENSES))
        parsed(config) ==
            IF config.threw THEN Ret(DEFAULT_ALLOWED_LICENSES)
            ELSE IF ~HasProps(config.val) THEN Ret(DEFAULT_ALLOWED_LICENSES)
            ELSE listed(GetProp(config.val, "allowedLicenses"))
        read(text) ==
            IF text.threw THEN Ret(DEFAULT_ALLOWED_LICENSES)
            ELSE parsed(JSONparse(text.val))
    IN  read(readFileSync(f, path))

\* loadConfig(configPath?) while the array holds what the module wrote into it
loadConfig(f, configPath) == loadConfigFrom(f, configPath, DEFAULT_ALLOWED_LICENSES)

-----------------------------------------------------------------------------
(* Workspace discovery.                                                    *)

\* the skip list with a slip: build is forgotten
EXCLUDED_NAMES_NoBuild == {"node_modules", ".git", ".turbo", ".next", "dist", "coverage"}

EXCLUDED_NAMES == {"node_modules", ".git", ".turbo", ".next", "dist", "coverage", "build"}

RECURSIVE WalkDir(_, _, _)
RECURSIVE WalkEntries(_, _, _, _, _)

\* WalkEntries with a slip: a directory that holds a descriptor is taken as a
\* leaf and its subdirectories are not searched
WalkEntriesNoNested(f, dir, entries, i, results) ==
    IF i > Len(entries) THEN results
    ELSE IF entries[i].name \in EXCLUDED_NAMES
    THEN WalkEntries(f, dir, entries, i + 1, results)
    ELSE IF entries[i].isDirectory
    THEN IF \E j \in 1..Len(entries) :
                entries[j].name = "package.json" /\ ~entries[j].isDirectory
         THEN WalkEntries(f, dir, entries, i + 1, results)
         ELSE WalkEntries(f, dir, entries, i + 1,
                          WalkDir(f, join(dir, entries[i].name), results))
    ELSE IF entries[i].name = "package.json"
    THEN WalkEntries(f, dir, entries, i + 1, Append(results, dir))
    ELSE WalkEntries(f, dir, entries, i + 1, results)

\* WalkEntries with a slip: a subdirectory that cannot be read ends the loop
\* over its parent, as when the try does not enclose the recursive call alone
WalkEntriesStopAtUnreadable(f, dir, entries, i, results) ==
    IF i > Len(entries) THEN results
    ELSE IF entries[i].name \in EXCLUDED_NAMES
    THEN WalkEntries(f, dir, entries, i + 1, results)
    ELSE IF entries[i].isDirectory
    THEN IF readdirSync(f, join(dir, entries[i].name)).threw THEN results
         ELSE WalkEntries(f, dir, entries, i + 1,
                          WalkDir(f, join(dir, entries[i].name), results))
    ELSE IF entries[i].name = "package.json"
    THEN WalkEntries(f, dir, entries, i + 1, Append(results, dir))
    ELSE WalkEntries(f, dir, entries, i + 1, results)

\* the body of findAllPackageJsonDirs(dir, results): the results array after
\* the call; a directory that cannot be read leaves it as it was
WalkDir(f, dir, results) ==
    LET loop(entries) ==
            IF entries.threw THEN results
            ELSE WalkEntries(f, dir, entries.val, 1, results)
    IN  loop(readdirSync(f, dir))

\* the for loop over the entries of dir, from entry i on
WalkEntries(f, dir, entries, i, results) ==
    IF i > Len(entries) THEN results
    ELSE IF entries[i].name \in EXCLUDED_NAMES
    THEN WalkEntries(f, dir, entries, i + 1, results)
    ELSE IF entries[i].isDirectory
    THEN WalkEntries(f, dir, entries, i + 1,
                     WalkDir(f, join(dir, entries[i].name), results))
    ELSE IF entries[i].name = "package.json"
    THEN WalkEntries(f, dir, entries, i + 1, Append(results, dir))
    ELSE WalkEntries(f, dir, entries, i + 1, results)

findAllPackageJsonDirs(f, dir) == Ret(WalkDir(f, dir, <<>>))

\* getWorkspaceDirs with a slip: the root is not filtered out
getWorkspaceDirsUnfiltered(f) == findAllPackageJsonDirs(f, cwd)

getWorkspaceDirs(f) ==
    LET rootDir == cwd
        keep(dir) == dir # rootDir
        filter(allDirs) ==
            IF allDirs.threw THEN Throw ELSE Ret(SelectSeq(allDirs.val, keep))
    IN  filter(findAllPackageJsonDirs(f, rootDir))

-----------------------------------------------------------------------------
(* License resolution.                                                     *)

RECURSIVE IndexKeys(_)
\* the keys "0" .. "n-1"
IndexKeys(n) == IF n = 0 THEN <<>> ELSE Append(IndexKeys(n - 1), NatToString(n - 1))

\* the keys that Object.entries(v) enumerates
ObjectKeys(v) ==
    CASE v.t = "obj" -> v.keys
      [] v.t = "arr" -> IndexKeys(Len(v.items))
      [] v.t = "str" -> IndexKeys(Len(v.s))
      [] OTHER -> <<>>

\* a Record<string, PackageInfo> in insertion order: obj[key] = info keeps the
\* place of a key that is already there and appends a new one
PutKey(obj, key, info) ==
    IF \E i \in 1..Len(obj) : obj[i].key = key
    THEN [i \in 1..Len(obj) |->
            IF obj[i].key = key THEN [key |-> key, info |-> info] ELSE obj[i]]
    ELSE Append(obj, [key |-> key, info |-> info])

RECURSIVE ObjectAssignKeepFirst(_, _, _)
\* Object.assign with a slip: a key the target already has is left as it is
ObjectAssignKeepFirst(target, source, i) ==
    IF i > Len(source) THEN target
    ELSE IF \E j \in 1..Len(target) : target[j].key = source[i].key
    THEN ObjectAssignKeepFirst(target, source, i + 1)
    ELSE ObjectAssignKeepFirst(Append(target, source[i]), source, i + 1)

RECURSIVE ObjectAssign(_, _, _)
\* Object.assign(target, source), from entry i of source on
ObjectAssign(target, source, i) ==
    IF i > Len(source) THEN target
    ELSE ObjectAssign(PutKey(target, source[i].key, source[i].info), source, i + 1)

\* the try block around one dependency: its descriptor, or a throw
ReadDependency(f, dir, name) ==
    LET depPath == join(join(join(dir, "node_modules"), name), "package.json")
        parsed(depPackageJson) ==
            IF depPackageJson.threw THEN Throw
            ELSE IF ~HasProps(depPackageJson.val) THEN Throw
            ELSE Ret(depPackageJson.val)
        read(text) == IF text.threw THEN Throw ELSE parsed(JSONparse(text.val))
        resolved(realDepPath) ==
            IF realDepPath.threw THEN Throw
            ELSE read(readFileSync(f, realDepPath.val))
    IN  resolved(realpathSync(f, depPath))

RECURSIVE ResolveDepsRequestedRange(_, _, _, _, _)
\* ResolveDeps with a slip: the version is the range the workspace asks for,
\* not the version the installed descriptor states
ResolveDepsRequestedRange(f, dir, names, i, licenses) ==
    IF i > Len(names) THEN licenses
    ELSE LET packageJson == JSONparse(readFileSync(f, join(dir, "package.json")).val).val
             put(license, version) ==
                 PutKey(licenses, names[i] \o "@" \o JsString(version),
                        [license |-> license, version |-> version])
             step(dep) ==
                 IF dep.threw THEN ResolveDepsRequestedRange(f, dir, names, i + 1, licenses)
                 ELSE ResolveDepsRequestedRange(f, dir, names, i + 1,
                          put(Or(GetProp(dep.val, "license"), Str("UNKNOWN")),
                              Or(GetProp(GetProp(packageJson, "dependencies"), names[i]),
                                 Str("UNKNOWN"))))
         IN  step(ReadDependency(f, dir, names[i]))

RECURSIVE ResolveDepsAbortOnFailure(_, _, _, _, _)
\* ResolveDeps with a slip: no try around one dependency, so the first failure
\* reaches the outer catch, which returns the empty mapping
ResolveDepsAbortOnFailure(f, dir, names, i, licenses) ==
    IF i > Len(names) THEN licenses
    ELSE LET put(license, version) ==
                 PutKey(licenses, names[i] \o "@" \o JsString(version),
                        [license |-> license, version |-> version])
             step(dep) ==
                 IF dep.threw THEN <<>>
                 ELSE ResolveDepsAbortOnFailure(f, dir, names, i + 1,
                          put(Or(GetProp(dep.val, "license"), Str("UNKNOWN")),
                              Or(GetProp(dep.val, "version"), Str("UNKNOWN"))))
         IN  step(ReadDependency(f, dir, names[i]))

RECURSIVE ResolveDeps(_, _, _, _, _)
\* the for loop over Object.entries(deps), from name i on
ResolveDeps(f, dir, names, i, licenses) ==
    IF i > Len(names) THEN licenses
    ELSE LET put(license, version) ==
                 PutKey(licenses, names[i] \o "@" \o JsString(version),
                        [license |-> license, version |-> version])
             step(dep) ==
                 IF dep.threw THEN ResolveDeps(f, dir, names, i + 1, licenses)
                 ELSE ResolveDeps(f, dir, names, i + 1,
                          put(Or(GetProp(dep.val, "license"), Str("UNKNOWN")),
                              Or(GetProp(dep.val, "version"), Str("UNKNOWN"))))
         IN  step(ReadDependency(f, dir, names[i]))

\* getLicensesFromPackageJson with a slip: no outer try, so a descriptor that
\* cannot be read or parsed throws
getLicensesFromPackageJsonThrowing(f, dir) ==
    LET parsed(packageJson) ==
            IF packageJson.threw THEN Throw
            ELSE IF ~HasProps(packageJson.val) THEN Throw
            ELSE Ret(ResolveDeps(f, dir,
                         ObjectKeys(Or(GetProp(packageJson.val, "dependencies"), EmptyObj)),
                         1, <<>>))
        read(text) == IF text.threw THEN Throw ELSE parsed(JSONparse(text.val))
    IN  read(readFileSync(f, join(dir, "package.json")))

\* getLicensesFromPackageJson with a slip: the development dependencies are
\* read along with the production ones
getLicensesFromPackageJsonWithDev(f, dir) ==
    LET both(deps, devDeps) ==
            LET notInDeps(name) == IndexOf(ObjectKeys(deps), name) = 0
            IN  ObjectKeys(deps) \o SelectSeq(ObjectKeys(devDeps), notInDeps)
        parsed(packageJson) ==
            IF packageJson.threw THEN Ret(<<>>)
            ELSE IF ~HasProps(packageJson.val) THEN Ret(<<>>)
            ELSE Ret(ResolveDeps(f, dir,
                         both(Or(GetProp(packageJson.val, "dependencies"), EmptyObj),
                              Or(GetProp(packageJson.val, "devDependencies"), EmptyObj)),
                         1, <<>>))
        read(text) == IF text.threw THEN Ret(<<>>) ELSE parsed(JSONparse(text.val))
    IN  read(readFileSync(f, join(dir, "package.json")))

getLicensesFromPackageJson(f, dir) ==
    LET parsed(packageJson) ==
            IF packageJson.threw THEN Ret(<<>>)
            ELSE IF ~HasProps(packageJson.val) THEN Ret(<<>>)
            ELSE Ret(ResolveDeps(f, dir,
                         ObjectKeys(Or(GetProp(packageJson.val, "dependencies"), EmptyObj)),
                         1, <<>>))
        read(text) == IF text.threw THEN Ret(<<>>) ELSE parsed(JSONparse(text.val))
    IN  read(readFileSync(f, join(dir, "package.json")))

RECURSIVE MergeWorkspaces(_, _, _, _)
\* the for loop of getLicenses over the workspace directories, from dir i on
MergeWorkspaces(f, workspaceDirs, i, allLicenses) ==
    IF i > Len(workspaceDirs) THEN Ret(allLicenses)
    ELSE LET assign(licenses) ==
                 IF licenses.threw THEN Throw
                 ELSE MergeWorkspaces(f, workspaceDirs, i + 1,
                                      ObjectAssign(allLicenses, licenses.val, 1))
         IN  assign(getLicensesFromPackageJson(f, workspaceDirs[i]))

getLicenses(f) ==
    LET merge(workspaceDirs) ==
            IF workspaceDirs.threw THEN Throw
            ELSE MergeWorkspaces(f, workspaceDirs.val, 1, <<>>)
    IN  merge(getWorkspaceDirs(f))

-----------------------------------------------------------------------------
(* The full run: checkLicenses.                                            *)

RECURSIVE ClassifySkipUnknown(_, _, _, _)
\* Classify with a slip: a package without a license is passed over, counted
\* neither as allowed nor as a violation
ClassifySkipUnknown(licenses, allowedLicenses, i, acc) ==
    IF i > Len(licenses) THEN Ret(acc)
    ELSE LET license == licenses[i].info.license
             allowed == isLicenseAllowed(license, allowedLicenses)
         IN  IF license = Str("UNKNOWN")
             THEN ClassifySkipUnknown(licenses, allowedLicenses, i + 1, acc)
             ELSE IF allowed.threw THEN Throw
             ELSE IF allowed.val
             THEN ClassifySkipUnknown(licenses, allowedLicenses, i + 1,
                                      [acc EXCEPT !.allowed = @ + 1])
             ELSE ClassifySkipUnknown(licenses, allowedLicenses, i + 1,
                                      [acc EXCEPT !.violations = @ + 1,
                                                  !.list = Append(@,
                                          [package |-> licenses[i].key,
                                           license |-> Or(license, Str("UNKNOWN")),
                                           version |-> licenses[i].info.version])])

RECURSIVE ClassifyPushAll(_, _, _, _)
\* Classify with a slip: the record is pushed outside the else branch, for
\* every package
ClassifyPushAll(licenses, allowedLicenses, i, acc) ==
    IF i > Len(licenses) THEN Ret(acc)
    ELSE LET license == licenses[i].info.license
             allowed == isLicenseAllowed(license, allowedLicenses)
             pushed == [acc EXCEPT !.list = Append(@,
                               [package |-> licenses[i].key,
                                license |-> Or(license, Str("UNKNOWN")),
                                version |-> licenses[i].info.version])]
         IN  IF allowed.threw THEN Throw
             ELSE IF allowed.val
             THEN ClassifyPushAll(licenses, allowedLicenses, i + 1,
                                  [pushed EXCEPT !.allowed = @ + 1])
             ELSE ClassifyPushAll(licenses, allowedLicenses, i + 1,
                                  [pushed EXCEPT !.violations = @ + 1])

RECURSIVE ClassifyExcluding(_, _, _, _)
\* Classify with a slip: a package that excludedPackages of the configuration
\* file names is passed over
ClassifyExcluding(licenses, allowedLicenses, i, acc) ==
    LET text == readFileSync(fs, join(cwd, ".licenserc.json"))
        excluded == IF text.threw \/ text.val.t # "obj" THEN Undefined
                    ELSE GetProp(text.val, "excludedPackages")
        isExcluded(key) ==
            /\ excluded.t = "arr"
            /\ \E j \in 1..Len(excluded.items) :
                  /\ excluded.items[j].t = "str"
                  /\ SubSeq(key, 1, Len(excluded.items[j].s) + 1) = excluded.items[j].s \o "@"
        license == licenses[i].info.license
        allowed == isLicenseAllowed(license, allowedLicenses)
    IN  IF i > Len(licenses) THEN Ret(acc)
        ELSE IF isExcluded(licenses[i].key)
        THEN ClassifyExcluding(licenses, allowedLicenses, i + 1, acc)
        ELSE IF allowed.threw THEN Throw
        ELSE IF allowed.val
        THEN ClassifyExcluding(licenses, allowedLicenses, i + 1,
                               [acc EXCEPT !.allowed = @ + 1])
        ELSE ClassifyExcluding(licenses, allowedLicenses, i + 1,
                               [acc EXCEPT !.violations = @ + 1,
                                           !.list = Append(@,
                                   [package |-> licenses[i].key,
                                    license |-> Or(license, Str("UNKNOWN")),
                                    version |-> licenses[i].info.version])])

RECURSIVE ClassifyUnshift(_, _, _, _)
\* Classify with a slip: a record is put at the front of the violations array
ClassifyUnshift(licenses, allowedLicenses, i, acc) ==
    IF i > Len(licenses) THEN Ret(acc)
    ELSE LET license == licenses[i].info.license
             allowed == isLicenseAllowed(license, allowedLicenses)
         IN  IF allowed.threw THEN Throw
             ELSE IF allowed.val
             THEN ClassifyUnshift(licenses, allowedLicenses, i + 1,
                                  [acc EXCEPT !.allowed = @ + 1])
             ELSE ClassifyUnshift(licenses, allowedLicenses, i + 1,
                                  [acc EXCEPT !.violations = @ + 1,
                                              !.list =
                                      <<[package |-> licenses[i].key,
                                         license |-> Or(license, Str("UNKNOWN")),
                                         version |-> licenses[i].info.version]>> \o @])

RECURSIVE Classify(_, _, _, _)
\* the for loop over Object.entries(licenses), from entry i on; acc holds the
\* counters summary.allowed and summary.violations and the violations array
Classify(licenses, allowedLicenses, i, acc) ==
    IF i > Len(licenses) THEN Ret(acc)
    ELSE LET license == licenses[i].info.license
             allowed == isLicenseAllowed(license, allowedLicenses)
         IN  IF allowed.threw THEN Throw
             ELSE IF allowed.val
             THEN Classify(licenses, allowedLicenses, i + 1,
                           [acc EXCEPT !.allowed = @ + 1])
             ELSE Classify(licenses, allowedLicenses, i + 1,
                           [acc EXCEPT !.violations = @ + 1,
                                       !.list = Append(@,
                               [package |-> licenses[i].key,
                                license |-> Or(license, Str("UNKNOWN")),
                                version |-> licenses[i].info.version])])

\* Array.prototype.join is missing on anything that is not an array
CanJoin(v) == v.t = "arr"

\* console.log lines of the verbose workspace listing
VerboseLines(workspaceDirs) ==
    <<"found-workspaces">> \o [i \in 1..Len(workspaceDirs) |-> "workspace"] \o <<"blank">>

\* console.error lines of the failure banner for n violations
RECURSIVE ViolationLines(_)
ViolationLines(n) ==
    IF n = 0 THEN <<>>
    ELSE <<"violation-package", "violation-version", "violation-license", "blank">>
         \o ViolationLines(n - 1)

\* checkLicenses(options) from the result of its first statement,
\* const allowedLicenses = loadConfig(), on: the returned report or a throw,
\* with what was written to stdout (console.log) and stderr (console.error)
\* until then
checkLicensesWith(f, options, config) ==
    LET listing == options.verbose /\ ~options.json /\ ~options.quiet
        thrown(out, err) == [threw |-> TRUE, stdout |-> out, stderr |-> err]
        \* from the report on: what is printed and returned
        output(allowedLicenses, licenses, summary, violations, out1) ==
            LET report == [summary |-> summary,
                           allowedLicenses |-> allowedLicenses,
                           licenses |-> licenses,
                           violations |-> violations]
                out2 == IF options.quiet THEN out1
                        ELSE out1 \o <<"checking", "allowed-licenses", "total-packages",
                                       "compatible", "violations">>
                err1 == <<"separator", "check-failed", "separator", "found-count">>
                        \o ViolationLines(Len(violations)) \o <<"reason", "reason-text">>
                err2 == err1 \o <<"allowed-header", "allowed-list", "actions", "action-1",
                                  "action-2", "action-3", "separator", "build-failed",
                                  "separator">>
                returned(out, err) ==
                    [threw |-> FALSE, val |-> report, stdout |-> out, stderr |-> err]
            IN  IF options.json THEN returned(out1 \o <<"json-report">>, <<>>)
                ELSE IF options.quiet /\ Len(violations) = 0 THEN returned(out1, <<>>)
                ELSE IF ~options.quiet /\ ~CanJoin(allowedLicenses)
                THEN thrown(out1 \o <<"checking">>, <<>>)
                ELSE IF Len(violations) > 0
                THEN IF ~CanJoin(allowedLicenses)
                     THEN thrown(out2, err1 \o <<"allowed-header">>)
                     ELSE returned(out2, err2)
                ELSE IF ~options.quiet THEN returned(out2 \o <<"all-compatible">>, <<>>)
                ELSE returned(out2, <<>>)
        \* after the loop over the licenses
        looped(allowedLicenses, licenses, loop, out1) ==
            IF loop.threw THEN thrown(out1, <<>>)
            ELSE output(allowedLicenses, licenses,
                        [total |-> Len(licenses),
                         allowed |-> loop.val.allowed,
                         violations |-> loop.val.violations],
                        loop.val.list, out1)
        \* after getLicenses()
        collected(allowedLicenses, licenses, out1) ==
            IF licenses.threw THEN thrown(out1, <<>>)
            ELSE looped(allowedLicenses, licenses.val,
                        Classify(licenses.val, allowedLicenses, 1,
                                 [allowed |-> 0, violations |-> 0, list |-> <<>>]),
                        out1)
        \* the verbose listing of the workspaces
        listed(allowedLicenses, workspaceDirs) ==
            IF listing /\ workspaceDirs.threw THEN thrown(<<>>, <<>>)
            ELSE collected(allowedLicenses, getLicenses(f),
                           IF listing THEN VerboseLines(workspaceDirs.val) ELSE <<>>)
        \* after loadConfig()
        loaded(allowedLicenses) ==
            IF allowedLicenses.threw THEN thrown(<<>>, <<>>)
            ELSE listed(allowedLicenses.val, getWorkspaceDirs(f))
    IN  loaded(config)

\* checkLicenses with a slip: the verbose listing is printed in quiet mode too
checkLicensesListingWhenQuiet(f, options) ==
    LET listing == options.verbose /\ ~options.json
        thrown(out, err) == [threw |-> TRUE, stdout |-> out, stderr |-> err]
        \* from the report on: what is printed and returned
        output(allowedLicenses, licenses, summary, violations, out1) ==
            LET report == [summary |-> summary,
                           allowedLicenses |-> allowedLicenses,
                           licenses |-> licenses,
                           violations |-> violations]
                out2 == IF options.quiet THEN out1
                        ELSE out1 \o <<"checking", "allowed-licenses", "total-packages",
                                       "compatible", "violations">>
                err1 == <<"separator", "check-failed", "separator", "found-count">>
                        \o ViolationLines(Len(violations)) \o <<"reason", "reason-text">>
                err2 == err1 \o <<"allowed-header", "allowed-list", "actions", "action-1",
                                  "action-2", "action-3", "separator", "build-failed",
                                  "separator">>
                returned(out, err) ==
                    [threw |-> FALSE, val |-> report, stdout |-> out, stderr |-> err]
            IN  IF options.json THEN returned(out1 \o <<"json-report">>, <<>>)
                ELSE IF options.quiet /\ Len(violations) = 0 THEN returned(out1, <<>>)
                ELSE IF ~options.quiet /\ ~CanJoin(allowedLicenses)
                THEN thrown(out1 \o <<"checking">>, <<>>)
                ELSE IF Len(violations) > 0
                THEN IF ~CanJoin(allowedLicenses)
                     THEN thrown(out2, err1 \o <<"allowed-header">>)
                     ELSE returned(out2, err2)
                ELSE IF ~options.quiet THEN returned(out2 \o <<"all-compatible">>, <<>>)
                ELSE returned(out2, <<>>)
        \* after the loop over the licenses
        looped(allowedLicenses, licenses, loop, out1) ==
            IF loop.threw THEN thrown(out1, <<>>)
            ELSE output(allowedLicenses, licenses,
                        [total |-> Len(licenses),
                         allowed |-> loop.val.allowed,
                         violations |-> loop.val.violations],
                        loop.val.list, out1)
        \* after getLicenses()
        collected(allowedLicenses, licenses, out1) ==
            IF licenses.threw THEN thrown(out1, <<>>)
            ELSE looped(allowedLicenses, licenses.val,
                        Classify(licenses.val, allowedLicenses, 1,
                                 [allowed |-> 0, violations |-> 0, list |-> <<>>]),
                        out1)
        \* the verbose listing of the workspaces
        listed(allowedLicenses, workspaceDirs) ==
            IF listing /\ workspaceDirs.threw THEN thrown(<<>>, <<>>)
            ELSE collected(allowedLicenses, getLicenses(f),
                           IF listing THEN VerboseLines(workspaceDirs.val) ELSE <<>>)
        \* after loadConfig()
        loaded(allowedLicenses) ==
            IF allowedLicenses.threw THEN thrown(<<>>, <<>>)
            ELSE listed(allowedLicenses.val, getWorkspaceDirs(f))
    IN  loaded(loadConfig(f, Undefined))

\* checkLicenses(options)
checkLicenses(f, options) == checkLicensesWith(f, options, loadConfig(f, Undefined))

-----------------------------------------------------------------------------
(* The command line: main of cli.ts.                                       *)

\* process.argv.includes(flag): some argument is exactly the flag
ArgvIncludes(argv, flag) == \E i \in 1..Len(argv) : argv[i] = flag

\* main(): the run of checkLicenses with the flags of argv and the exit code
\* of the process; an exception nobody catches ends the process with code 1
main(f, argv) ==
    LET isJsonMode == ArgvIncludes(argv, "--json")
        isVerbose == ArgvIncludes(argv, "--verbose")
        isQuiet == ArgvIncludes(argv, "--quiet")
        exit(report) ==
            IF report.threw THEN [exit |-> 1, uncaught |-> TRUE, run |-> report]
            ELSE [exit |-> IF Len(report.val.violations) > 0 THEN 1 ELSE 0,
                  uncaught |-> FALSE, run |-> report]
    IN  exit(checkLicenses(f, [json |-> isJsonMode, verbose |-> isVerbose,
                               quiet |-> isQuiet]))

-----------------------------------------------------------------------------
(* Building filesystem states: what mkdirSync(..., { recursive: true }) and *)
(* writeFileSync leave behind, as in the test suites.                      *)

EmptyFs == [p \in {cwd} |-> Dir(<<>>)]

\* the characters of file names in the order of their codes
CodeOrder == "-.0123456789@ABCDEFGHIJKLMNOPQRSTUVWXYZ_abcdefghijklmnopqrstuvwxyz"

CodeOf(c) == CHOOSE i \in 1..Len(CodeOrder) : CharAt(CodeOrder, i) = c

RECURSIVE NameLess(_, _)
\* a comes before b in the listing of a directory: the names compared byte
\* by byte, a proper prefix first
NameLess(a, b) ==
    IF b = "" THEN FALSE
    ELSE IF a = "" THEN TRUE
    ELSE IF CharAt(a, 1) = CharAt(b, 1) THEN NameLess(Tail(a), Tail(b))
    ELSE CodeOf(CharAt(a, 1)) < CodeOf(CharAt(b, 1))

RECURSIVE InsertName(_, _)
\* the entries, in listing order, with name added at its place
InsertName(entries, name) ==
    IF entries = <<>> THEN <<name>>
    ELSE IF NameLess(name, Head(entries)) THEN <<name>> \o entries
    ELSE <<Head(entries)>> \o InsertName(Tail(entries), name)

\* put node under the existing directory dir as entry name; the directory
\* lists its entries in the order of their names, not of their making
PutNode(f, dir, name, node) ==
    [p \in DOMAIN f \cup {join(dir, name)} |->
        IF p = join(dir, name) THEN node
        ELSE IF p = dir /\ join(dir, name) \notin DOMAIN f
        THEN [f[dir] EXCEPT !.entries = InsertName(@, name)]
        ELSE f[p]]

RECURSIVE PathOf(_, _)
PathOf(dir, names) ==
    IF names = <<>> THEN dir ELSE PathOf(join(dir, Head(names)), Tail(names))

RECURSIVE MkdirP(_, _, _)
\* mkdirSync(join(dir, ...names), { recursive: true })
MkdirP(f, dir, names) ==
    IF names = <<>> THEN f
    ELSE IF join(dir, Head(names)) \in DOMAIN f
    THEN MkdirP(f, join(dir, Head(names)), Tail(names))
    ELSE MkdirP(PutNode(f, dir, Head(names), Dir(<<>>)), join(dir, Head(names)), Tail(names))

\* writeFileSync(join(cwd, ...names, name), content), directories made first
WriteFile(f, names, name, content) ==
    PutNode(MkdirP(f, cwd, names), PathOf(cwd, names), name, File(content))

\* symlinkSync(target, join(cwd, ...names, name)), directories made first
Symlink(f, names, name, target) ==
    PutNode(MkdirP(f, cwd, names), PathOf(cwd, names), name, Link(target))

\* chmod 000 on an existing path
Chmod000(f, names) == [f EXCEPT ![PathOf(cwd, names)] = Locked(@)]

-----------------------------------------------------------------------------
(* Inputs of isLicenseAllowed.                                             *)

\* letters for the exhaustive part: enough to spell GPL in either case
Alphabet == {"G", "g", "P", "L"}

RECURSIVE StringsUpTo(_)
StringsUpTo(n) ==
    IF n = 0 THEN {""}
    ELSE LET shorter == StringsUpTo(n - 1)
         IN  shorter \cup {s \o c : s \in shorter, c \in Alphabet}

\* license strings of the test suites and the spec, and near misses of them
NamedLicenses ==
    {"UNKNOWN", "unknown", "UNKNOWN-1", "MIT", "mit", "Apache-2.0", "apache-2.0",
     "MIT OR Apache-2.0", "ISC", "BSD-3-Clause", "GPL-3.0", "gpl-2.0", "LGPL-3.0",
     "AGPL-3.0", "SSPL-1.0", "sspl", "BUSL-1.1", "Busl", "Copyleft License",
     "copyleft", "MIT AND GPL-3.0"}

LicenseStrings == StringsUpTo(MaxLicenseLen) \cup NamedLicenses

AllowEntries == {"", "g", "GPL", "GPL-3.0", "MIT", "UNKNOWN"}

RECURSIVE SeqsUpTo(_, _)
SeqsUpTo(S, n) ==
    IF n = 0 THEN {<<>>}
    ELSE LET shorter == SeqsUpTo(S, n - 1)
         IN  shorter \cup {Append(q, x) : q \in shorter, x \in S}

\* allowlists: arrays of strings
AllowLists == {Arr([i \in 1..Len(q) |-> Str(q[i])]) : q \in SeqsUpTo(AllowEntries, MaxAllowed)}

-----------------------------------------------------------------------------
(* Specification of isLicenseAllowed as a pure function of its arguments.  *)

NoCall == [op |-> "none"]

InitAllowed ==
    /\ fs = EmptyFs
    /\ call = NoCall
    /\ reports = <<>>
    /\ defaults = DEFAULT_ALLOWED_LICENSES
    /\ received = <<>>

CallIsLicenseAllowed ==
    /\ call = NoCall
    /\ \E license \in LicenseStrings, allowedLicenses \in AllowLists :
          call' = [op |-> "isLicenseAllowed",
                   license |-> license,
                   allowedLicenses |-> allowedLicenses,
                   ret |-> isLicenseAllowed(Str(license), allowedLicenses)]
    /\ UNCHANGED <<fs, reports, defaults, received>>

\* the caller takes the result
Return ==
    /\ call # NoCall
    /\ call' = NoCall
    /\ UNCHANGED <<fs, reports, defaults, received>>

NextAllowed == CallIsLicenseAllowed \/ Return

SpecAllowed == InitAllowed /\ [][NextAllowed]_vars

-----------------------------------------------------------------------------
(* Filesystem states of the full run.                                      *)

Absent == [kind |-> "absent"]
Present(content) == [kind |-> "file", content |-> content]

\* a file that is there or not
MaybeWrite(f, names, name, option) ==
    IF option = Absent THEN f ELSE WriteFile(f, names, name, option.content)

\* a workspace descriptor declaring the given production dependencies
Manifest(depNames) ==
    Obj(<<"name", "dependencies">>,
        <<Str("workspace"), Obj(depNames, [i \in 1..Len(depNames) |-> Str("^1.0.0")])>>)

\* an installed descriptor; an Undefined field is left out of the document
Descriptor(license, version) ==
    LET l == IF license = Undefined THEN EmptyObj ELSE Obj(<<"license">>, <<license>>)
        v == IF version = Undefined THEN EmptyObj ELSE Obj(<<"version">>, <<version>>)
    IN  Obj(<<"name">> \o v.keys \o l.keys, <<Str("pkg")>> \o v.vals \o l.vals)

\* the installed descriptor of dependency name of the workspace at names
Install(f, names, name, option) ==
    MaybeWrite(f, names \o <<"node_modules", name>>, "package.json", option)

DepName(i) == "dep" \o NatToString(i)

RECURSIVE DepNames(_)
DepNames(k) == IF k = 0 THEN <<>> ELSE Append(DepNames(k - 1), DepName(k))

\* the contents of .licenserc.json
AllowedLicensesValues ==
    {Arr(<<>>), Arr(<<Str("MIT")>>), Arr(<<Str("MIT"), Str("Apache-2.0")>>),
     Arr(<<Str("GPL-3.0")>>), Arr(<<Str("UNKNOWN"), Str("")>>),
     Str("MIT"), Num(1), Arr(<<Num(1)>>), Arr(<<Str("MIT"), Null>>), EmptyObj,
     Null, Bool(FALSE), Str(""), Num(0)}

ConfigDocuments ==
    {Null, Num(5), Str("MIT"), Arr(<<Str("MIT")>>), EmptyObj,
     Obj(<<"excludedPackages", "notes">>, <<Arr(<<Str("dep1")>>), EmptyObj>>)}
    \cup {Obj(<<"allowedLicenses">>, <<v>>) : v \in AllowedLicensesValues}

\* the root with its configuration file: missing, present, unreadable, or a
\* directory of that name
ConfiguredRoots ==
    {EmptyFs, MkdirP(EmptyFs, cwd, <<".licenserc.json">>)}
    \cup {WriteFile(EmptyFs, <<>>, ".licenserc.json", c) : c \in ConfigDocuments \cup {InvalidText}}
    \cup {Chmod000(WriteFile(EmptyFs, <<>>, ".licenserc.json", Obj(<<"allowedLicenses">>, <<Arr(<<Str("MIT")>>)>>)),
                   <<".licenserc.json">>)}

OnlyMitRoot == WriteFile(EmptyFs, <<>>, ".licenserc.json", Obj(<<"allowedLicenses">>, <<Arr(<<Str("MIT")>>)>>))

\* installed descriptors, in full and the common ones
CommonInstalls ==
    {Absent,
     Present(Descriptor(Str("MIT"), Str("1.0.0"))),
     Present(Descriptor(Str("GPL-3.0"), Str("1.0.0"))),
     Present(Descriptor(Undefined, Str("1.0.0")))}

AllInstalls ==
    CommonInstalls \cup
    {Present(InvalidText), Present(Null),
     Present(Descriptor(Str("Apache-2.0"), Str("2.0.0"))),
     Present(Descriptor(Str("MIT"), Undefined)),
     Present(Descriptor(Str("MIT"), Str(""))),
     Present(Descriptor(Str(""), Str("1.0.0"))),
     Present(Descriptor(Str("UNKNOWN"), Str("1.0.0"))),
     Present(Descriptor(Obj(<<"type">>, <<Str("MIT")>>), Str("1.0.0"))),
     Present(Descriptor(Arr(<<Str("GPL-3.0")>>), Num(2))),
     Present(Descriptor(Str("MIT"), Arr(<<>>)))}

RECURSIVE InstallEach(_, _, _, _)
\* dependency i gets installs[i], for i = k down to 1
InstallEach(f, names, installs, k) ==
    IF k = 0 THEN f
    ELSE Install(InstallEach(f, names, installs, k - 1), names, DepName(k), installs[k])

\* one workspace app declaring up to MaxDeps dependencies, each installed or not
FsManyDeps ==
    UNION {{InstallEach(WriteFile(root, <<"app">>, "package.json", Manifest(DepNames(k))),
                        <<"app">>, installs, k) :
               installs \in [1..k -> CommonInstalls], root \in {EmptyFs, OnlyMitRoot}} :
           k \in 0..MaxDeps}

\* one workspace with one dependency, under every configuration
FsOneDep ==
    {Install(WriteFile(root, <<"app">>, "package.json", Manifest(<<"dep1">>)),
             <<"app">>, "dep1", install) :
        root \in ConfiguredRoots, install \in AllInstalls}

\* a project whose root declares a dependency of its own
FsRootProject ==
    {MaybeWrite(Install(WriteFile(EmptyFs, <<>>, "package.json", Manifest(<<"dep1">>)),
                        <<>>, "dep1", install),
                <<"app">>, "package.json", app) :
        install \in CommonInstalls \ {Absent}, app \in {Absent, Present(Manifest(<<>>))}}

\* one or two workspaces that declare the same dependency, made in either
\* order; app is listed before lib whichever was made first
FsTwoWorkspaces ==
    {Install(Install(WriteFile(WriteFile(EmptyFs, <<first>>, "package.json", Manifest(<<"dep1">>)),
                               <<second>>, "package.json", Manifest(<<"dep1">>)),
                     <<"app">>, "dep1", a),
             <<"lib">>, "dep1", b) :
        a \in CommonInstalls, b \in CommonInstalls,
        first \in {"app", "lib"}, second \in {"app", "lib"}}

\* a workspace whose own descriptor is unusable in some way
BrokenManifests ==
    {InvalidText, Null, Num(1), Obj(<<"name">>, <<Str("workspace")>>),
     Obj(<<"devDependencies">>, <<Obj(<<"dep1">>, <<Str("^1.0.0")>>)>>),
     Obj(<<"dependencies">>, <<Null>>),
     Obj(<<"dependencies">>, <<Str("d")>>),
     Obj(<<"dependencies">>, <<Arr(<<Str("dep1")>>)>>)}

FsBrokenManifest ==
    {Install(WriteFile(EmptyFs, <<"app">>, "package.json", m), <<"app">>, "dep1",
             Present(Descriptor(Str("MIT"), Str("1.0.0")))) : m \in BrokenManifests}

\* a workspace descriptor with production and development dependencies, each
\* Present(names) or Absent, which leaves the field out
ManifestWithDev(depNames, devNames) ==
    LET ranges(names) == Obj(names, [i \in 1..Len(names) |-> Str("^1.0.0")])
        deps == IF depNames = Absent THEN EmptyObj
                ELSE Obj(<<"dependencies">>, <<ranges(depNames.content)>>)
        dev == IF devNames = Absent THEN EmptyObj
               ELSE Obj(<<"devDependencies">>, <<ranges(devNames.content)>>)
    IN  Obj(<<"name">> \o deps.keys \o dev.keys, <<Str("workspace")>> \o deps.vals \o dev.vals)

\* an installed descriptor that has production dependencies of its own
DescriptorWithDeps(license, version, depNames) ==
    LET d == Descriptor(license, version)
    IN  Obj(Append(d.keys, "dependencies"),
            Append(d.vals, Obj(depNames, [i \in 1..Len(depNames) |-> Str("^1.0.0")])))

\* one workspace whose node_modules holds dep1 (which depends on dep3), dep2
\* and dep3, and whose descriptor names some of them as production and some as
\* development dependencies
FsDevDeps ==
    {Install(Install(Install(WriteFile(EmptyFs, <<"app">>, "package.json",
                                       ManifestWithDev(deps, dev)),
                             <<"app">>, "dep1",
                             Present(DescriptorWithDeps(Str("MIT"), Str("1.0.0"), <<"dep3">>))),
                     <<"app">>, "dep2", Present(Descriptor(Str("GPL-3.0"), Str("2.0.0")))),
             <<"app">>, "dep3", Present(Descriptor(Str("AGPL-3.0"), Str("3.0.0")))) :
        deps \in {Absent, Present(<<>>), Present(<<"dep1">>), Present(<<"dep2", "dep1">>)},
        dev \in {Absent, Present(<<>>), Present(<<"dep2">>), Present(<<"dep1", "dep2">>),
                 Present(<<"dep3">>)}}

\* the package store that linked installations point into
StoreNames == <<"node_modules", ".pnpm">>

\* the ways dependency name of the workspace at names can be installed: not at
\* all, as a descriptor file, as a descriptor nobody may read, as a link to a
\* place that is not there, or as a link into the store
InstallAs(f, names, name, option) ==
    LET here == names \o <<"node_modules", name>>
    IN  CASE option.kind = "absent" -> f
          [] option.kind = "file" -> WriteFile(f, here, "package.json", option.content)
          [] option.kind = "locked" ->
                Chmod000(WriteFile(f, here, "package.json", option.content),
                         Append(here, "package.json"))
          [] option.kind = "broken" ->
                Symlink(f, names \o <<"node_modules">>, name,
                        PathOf(cwd, StoreNames \o <<"gone", name>>))
          [] option.kind = "linked" ->
                Symlink(WriteFile(f, StoreNames \o <<name>>, "package.json", option.content),
                        names \o <<"node_modules">>, name,
                        PathOf(cwd, StoreNames \o <<name>>))

InstallOptions ==
    {Absent,
     Present(Descriptor(Str("MIT"), Str("1.0.0"))),
     Present(InvalidText),
     Present(Null),
     [kind |-> "locked", content |-> Descriptor(Str("MIT"), Str("1.0.0"))],
     [kind |-> "broken"],
     [kind |-> "linked", content |-> Descriptor(Str("GPL-3.0"), Str("2.0.0"))]}

RECURSIVE InstallEachAs(_, _, _, _)
\* dependency i is installed as options[i], for i = k down to 1
InstallEachAs(f, names, options, k) ==
    IF k = 0 THEN f
    ELSE InstallAs(InstallEachAs(f, names, options, k - 1), names, DepName(k), options[k])

\* one workspace declaring up to MaxDeps dependencies, each installed in one
\* of the ways above
FsFailingDeps ==
    UNION {{InstallEachAs(WriteFile(EmptyFs, <<"app">>, "package.json", Manifest(DepNames(k))),
                          <<"app">>, options, k) :
               options \in [1..k -> InstallOptions]} :
           k \in 1..MaxDeps}

\* the descriptor of the workspace at names: none (the directory alone), a
\* file, or a file nobody may read
WriteDescriptor(f, names, option) ==
    CASE option.kind = "absent" -> MkdirP(f, cwd, names)
      [] option.kind = "file" -> WriteFile(f, names, "package.json", option.content)
      [] option.kind = "locked" ->
            Chmod000(WriteFile(f, names, "package.json", option.content),
                     Append(names, "package.json"))

DescriptorOptions ==
    {Absent,
     Present(InvalidText),
     Present(Null),
     [kind |-> "locked", content |-> Manifest(<<"dep1">>)],
     Present(Manifest(<<"dep1">>))}

\* two workspaces with dep1 and dep2 installed: one declares dep2, the other
\* has a descriptor that may be unusable and declares dep1 when it is not; the
\* latter is app, which is listed first, or lib, which is listed last
FsBrokenBeside ==
    LET descriptorOf(name, broken, option) ==
            IF name = broken THEN option ELSE Present(Manifest(<<"dep2">>))
        workspaces(broken, option) ==
            WriteDescriptor(WriteDescriptor(EmptyFs, <<"app">>, descriptorOf("app", broken, option)),
                            <<"lib">>, descriptorOf("lib", broken, option))
        installed(f, name) ==
            Install(Install(f, <<name>>, "dep1", Present(Descriptor(Str("MIT"), Str("1.0.0")))),
                    <<name>>, "dep2", Present(Descriptor(Str("GPL-3.0"), Str("2.0.0"))))
    IN  {installed(installed(workspaces(broken, option), "app"), "lib") :
            option \in DescriptorOptions, broken \in {"app", "lib"}}

\* a project with a descriptor at the root, in app, in app/sub and in lib
ProjectTree ==
    WriteFile(WriteFile(WriteFile(WriteFile(EmptyFs, <<>>, "package.json", Manifest(<<>>)),
                                  <<"app">>, "package.json", Manifest(<<>>)),
                        <<"app", "sub">>, "package.json", Manifest(<<>>)),
              <<"lib">>, "package.json", Manifest(<<>>))

\* the project with one of its directories or descriptors closed to reading
FsLocked ==
    {Chmod000(ProjectTree, names) :
        names \in {<<>>, <<"app">>, <<"app", "sub">>, <<"lib">>, <<"app", "package.json">>}}

\* the project with odd entries in it: a link to the directory app, a
\* directory web whose package.json is a link to the descriptor of lib, and a
\* directory odd whose package.json is a directory with a descriptor inside
FsOddEntries ==
    {WriteFile(Symlink(Symlink(ProjectTree, <<>>, "lnk", join(cwd, "app")),
                       <<"web">>, "package.json", join(cwd, "lib/package.json")),
               <<"odd", "package.json">>, "package.json", Manifest(<<>>))}

\* dependency names that are array indices (9 and 10), that look like one
\* (01) and that are ordinary
OrderNames == {"dep1", "10", "9", "01"}

\* the sequences of up to n elements of S without a repetition
DistinctSeqs(S, n) ==
    {q \in SeqsUpTo(S, n) : \A i \in 1..Len(q) : \A j \in 1..Len(q) : q[i] = q[j] => i = j}

RECURSIVE InstallNamed(_, _, _, _, _)
\* the first k of the named dependencies installed with version 1.0.0, dep1
\* with the license MIT and the others with license
InstallNamed(f, names, depNames, k, license) ==
    IF k = 0 THEN f
    ELSE Install(InstallNamed(f, names, depNames, k - 1, license), names, depNames[k],
                 Present(Descriptor(Str(IF depNames[k] = "dep1" THEN "MIT" ELSE license),
                                    Str("1.0.0"))))

\* workspace app declaring up to MaxDeps of the names above in some order,
\* alone or with a second workspace, api, which is listed before it, or lib,
\* which is listed after it, that declares dep2 and 9 and has them installed
\* under another license
FsDeclarationOrders ==
    LET app(f, deps) ==
            InstallNamed(WriteFile(f, <<"app">>, "package.json", Manifest(deps)),
                         <<"app">>, deps, Len(deps), "GPL-3.0")
        second(f, name) ==
            InstallNamed(WriteFile(f, <<name>>, "package.json", Manifest(<<"dep2", "9">>)),
                         <<name>>, <<"dep2", "9">>, 2, "AGPL-3.0")
    IN  {IF beside = "" THEN app(EmptyFs, deps) ELSE second(app(EmptyFs, deps), beside) :
            deps \in DistinctSeqs(OrderNames, MaxDeps) \ {<<>>},
            beside \in {"", "api", "lib"}}

\* the project with links that close a cycle: app/loop points to the root, self
\* points to itself, lib/a and lib/b point to each other, and app/sub/up points
\* to app
FsLinkCycles ==
    LET looped == Symlink(ProjectTree, <<"app">>, "loop", cwd)
        crossed(f) ==
            Symlink(Symlink(Symlink(Symlink(f, <<>>, "self", join(cwd, "self")),
                                    <<"lib">>, "a", join(cwd, "lib/b")),
                            <<"lib">>, "b", join(cwd, "lib/a")),
                    <<"app", "sub">>, "up", join(cwd, "app"))
    IN  {looped, crossed(looped)}

\* directory names of the discovery trees: an ordinary one and the names the
\* walk is documented to skip
ChainNames ==
    {"app", "node_modules", ".git", ".turbo", ".next", "dist", "coverage", "build"}

\* the directory at level i of a chain, with its own descriptor (when it has
\* one) declaring dependency DepName(i), installed under it with an MIT licence
ChainLevel(f, names, i, hasManifest) ==
    LET here == SubSeq(names, 1, i)
        made == MkdirP(f, cwd, here)
    IN  IF hasManifest
        THEN Install(WriteFile(made, here, "package.json", Manifest(<<DepName(i)>>)),
                     here, DepName(i), Present(Descriptor(Str("MIT"), Str("1.0.0"))))
        ELSE made

RECURSIVE Chain(_, _, _, _)
\* levels 1 .. i of the chain; level 1 has a descriptor when firstHas says so,
\* deeper levels always
Chain(f, names, i, firstHas) ==
    IF i = 0 THEN f
    ELSE ChainLevel(Chain(f, names, i - 1, firstHas), names, i, i > 1 \/ firstHas)

\* a chain of nested directories below a root with or without a descriptor
FsChains ==
    UNION {{Chain(ChainLevel(EmptyFs, <<>>, 0, rootHas), names, k, firstHas) :
               names \in [1..k -> ChainNames], rootHas \in BOOLEAN, firstHas \in BOOLEAN} :
           k \in 0..MaxDepth}

FsStates ==
    FsManyDeps \cup FsOneDep \cup FsRootProject \cup FsTwoWorkspaces
    \cup FsBrokenManifest \cup FsChains \cup FsDevDeps \cup FsFailingDeps
    \cup FsBrokenBeside \cup FsLocked \cup FsOddEntries \cup FsDeclarationOrders
    \cup FsLinkCycles

-----------------------------------------------------------------------------
(* Specification of the library's entry points over a filesystem state.    *)

\* the array holds what the module wrote into it; in Spec and SpecWalk
\* no caller writes into a list it was given, and it stays so
Init ==
    /\ fs \in FsStates
    /\ call = NoCall
    /\ reports = <<>>
    /\ defaults = DEFAULT_ALLOWED_LICENSES
    /\ received = <<>>

ConfigPaths == {Undefined, Str(join(cwd, ".licenserc.json")), Str("/non/existent/.licenserc.json")}

CallLoadConfig ==
    /\ call = NoCall
    /\ \E configPath \in ConfigPaths :
          call' = [op |-> "loadConfig", configPath |-> configPath,
                   ret |-> loadConfig(fs, configPath)]
    /\ UNCHANGED <<fs, reports, defaults, received>>

CallFindAllPackageJsonDirs ==
    /\ call = NoCall
    /\ \E dir \in {cwd, join(cwd, "app"), join(cwd, "package.json"), "/root/nonexistent"} :
          call' = [op |-> "findAllPackageJsonDirs", dir |-> dir,
                   ret |-> findAllPackageJsonDirs(fs, dir)]
    /\ UNCHANGED <<fs, reports, defaults, received>>

CallGetWorkspaceDirs ==
    /\ call = NoCall
    /\ call' = [op |-> "getWorkspaceDirs", ret |-> getWorkspaceDirs(fs)]
    /\ UNCHANGED <<fs, reports, defaults, received>>

CallGetLicensesFromPackageJson ==
    /\ call = NoCall
    /\ \E dir \in {cwd, join(cwd, "app")} :
          call' = [op |-> "getLicensesFromPackageJson", dir |-> dir,
                   ret |-> getLicensesFromPackageJson(fs, dir)]
    /\ UNCHANGED <<fs, reports, defaults, received>>

CallGetLicenses ==
    /\ call = NoCall
    /\ call' = [op |-> "getLicenses", ret |-> getLicenses(fs)]
    /\ UNCHANGED <<fs, reports, defaults, received>>

CheckOptions == [json : BOOLEAN, verbose : BOOLEAN, quiet : BOOLEAN]

CallCheckLicenses ==
    /\ call = NoCall
    /\ \E options \in CheckOptions :
          call' = [op |-> "checkLicenses", options |-> options,
                   ret |-> checkLicenses(fs, options)]
    /\ UNCHANGED <<fs, reports, defaults, received>>

\* the arguments after the script path
Argvs ==
    {<<>>, <<"--json">>, <<"--verbose">>, <<"--quiet">>, <<"--quiet", "--json">>,
     <<"--verbose", "--quiet">>, <<"--json", "--verbose", "--quiet">>,
     <<"--jsonl", "json">>}

CallMain ==
    /\ call = NoCall
    /\ \E argv \in Argvs :
          call' = [op |-> "main", argv |-> argv, ret |-> main(fs, argv)]
    /\ UNCHANGED <<fs, reports, defaults, received>>

Next ==
    \/ CallLoadConfig
    \/ CallFindAllPackageJsonDirs
    \/ CallGetWorkspaceDirs
    \/ CallGetLicensesFromPackageJson
    \/ CallGetLicenses
    \/ CallCheckLicenses
    \/ CallMain
    \/ Return

Spec == Init /\ [][Next]_vars

-----------------------------------------------------------------------------
(* Specification of findAllPackageJsonDirs step by step: the recursion is a *)
(* stack of loops, one frame for each call whose directory was read, and   *)
(* call holds the stack, the results array and the directories read so far. *)

\* a call findAllPackageJsonDirs(dir, results) begins: dir is read, and its
\* loop starts when the read succeeds
WalkEnter(walk, dir) ==
    LET enter(entries) ==
            [walk EXCEPT !.reads = Append(@, dir),
                         !.stack = IF entries.threw THEN @
                                   ELSE Append(@, [dir |-> dir, entries |-> entries.val,
                                                   i |-> 1])]
    IN  enter(readdirSync(fs, dir))

\* one turn of the innermost loop: the next entry of its directory is skipped,
\* searched or recorded, and the call returns to the loop that made it when
\* the entries are used up
WalkNext(walk) ==
    LET n == Len(walk.stack)
        top == walk.stack[n]
        entry == top.entries[top.i]
        advanced == [walk EXCEPT !.stack[n].i = @ + 1, !.steps = @ + 1]
    IN  IF top.i > Len(top.entries)
        THEN [walk EXCEPT !.stack = SubSeq(@, 1, n - 1), !.steps = @ + 1]
        ELSE IF entry.name \in EXCLUDED_NAMES THEN advanced
        ELSE IF entry.isDirectory THEN WalkEnter(advanced, join(top.dir, entry.name))
        ELSE IF entry.name = "package.json"
        THEN [advanced EXCEPT !.results = Append(@, top.dir)]
        ELSE advanced

\* the directories discovery is started from: the root, a workspace, a link to
\* a directory, a link to itself and a path that is not there
WalkRoots == {cwd, join(cwd, "app"), join(cwd, "lnk"), join(cwd, "self"), "/root/nonexistent"}

WalkStart ==
    /\ call = NoCall
    /\ \E dir \in WalkRoots :
          call' = WalkEnter([op |-> "walk", root |-> dir, stack |-> <<>>, results |-> <<>>,
                             reads |-> <<>>, steps |-> 0], dir)
    /\ UNCHANGED <<fs, reports, defaults, received>>

WalkStep ==
    /\ call.op = "walk"
    /\ call.stack # <<>>
    /\ call' = WalkNext(call)
    /\ UNCHANGED <<fs, reports, defaults, received>>

\* the outermost call returns results
WalkReturn ==
    /\ call.op = "walk"
    /\ call.stack = <<>>
    /\ call' = NoCall
    /\ UNCHANGED <<fs, reports, defaults, received>>

NextWalk == WalkStart \/ WalkStep \/ WalkReturn

SpecWalk == Init /\ [][NextWalk]_vars

-----------------------------------------------------------------------------
(* Specification of a caller that keeps the lists it is given, the list    *)
(* loadConfig returns and the allowedLicenses of a report, and writes into *)
(* them between calls. A list is an object: what loadConfig returns in a   *)
(* fallback is the module's array itself, and a write into it is seen by   *)
(* every later call. The filesystem stays as it is throughout, and reports *)
(* holds each report with the entries it had when it was returned.         *)

\* the module's array as an object, not its entries
TheDefaultArray == [t |-> "ref", to |-> "DEFAULT_ALLOWED_LICENSES"]

\* loadConfig(configPath) returns the module's array
ReturnsDefaultArray(f, configPath) ==
    loadConfigFrom(f, configPath, TheDefaultArray) = Ret(TheDefaultArray)

\* roots for the shared array: no configuration file, one that lists MIT, an
\* unparsable one, one without the field and one with the empty list
SharedRoots ==
    {EmptyFs, OnlyMitRoot,
     WriteFile(EmptyFs, <<>>, ".licenserc.json", InvalidText),
     WriteFile(EmptyFs, <<>>, ".licenserc.json", EmptyObj),
     WriteFile(EmptyFs, <<>>, ".licenserc.json", Obj(<<"allowedLicenses">>, <<Arr(<<>>)>>))}

\* each root alone and with a workspace that has MIT installed
FsShared ==
    SharedRoots \cup
    {Install(WriteFile(root, <<"app">>, "package.json", Manifest(<<"dep1">>)),
             <<"app">>, "dep1", Present(Descriptor(Str("MIT"), Str("1.0.0")))) :
        root \in SharedRoots}

InitShared ==
    /\ fs \in FsShared
    /\ call = NoCall
    /\ reports = <<>>
    /\ defaults = DEFAULT_ALLOWED_LICENSES
    /\ received = <<>>

\* what the caller keeps of a returned list: the module's array or the list
Kept(f, configPath, list) ==
    IF ReturnsDefaultArray(f, configPath) THEN TheDefaultArray ELSE list

\* const list = loadConfig(configPath)
KeepLoadConfig ==
    /\ call = NoCall
    /\ Len(received) < MaxRuns
    /\ \E configPath \in ConfigPaths :
          \E ret \in {loadConfigFrom(fs, configPath, defaults)} :
              /\ call' = [op |-> "loadConfig", configPath |-> configPath, ret |-> ret,
                          fallback |-> ReturnsDefaultArray(fs, configPath)]
              /\ received' = Append(received, Kept(fs, configPath, ret.val))
    /\ UNCHANGED <<fs, reports, defaults>>

\* const report = checkLicenses(options), of which the caller keeps
\* report.allowedLicenses
KeepCheckLicenses ==
    /\ call = NoCall
    /\ Len(received) < MaxRuns
    /\ \E options \in CheckOptions :
          \E ret \in {checkLicensesWith(fs, options, loadConfigFrom(fs, Undefined, defaults))} :
              /\ call' = [op |-> "checkLicenses", options |-> options, ret |-> ret,
                          fallback |-> ReturnsDefaultArray(fs, Undefined)]
              /\ received' = IF ret.threw THEN received
                             ELSE Append(received, Kept(fs, Undefined, ret.val.allowedLicenses))
              /\ reports' = IF ret.threw THEN reports ELSE Append(reports, ret.val)
    /\ UNCHANGED <<fs, defaults>>

NewEntry == Str("Proprietary")

\* the writes of a caller: list.push("Proprietary") when the list does not
\* hold it yet, and list.length = 0 when the list is not empty
Writes(list) ==
    IF list.t # "arr" THEN {}
    ELSE (IF NewEntry \in {list.items[i] : i \in 1..Len(list.items)} THEN {}
          ELSE {Arr(Append(list.items, NewEntry))})
         \cup (IF list.items = <<>> THEN {} ELSE {Arr(<<>>)})

\* the caller writes into a list it kept
CallerWrites ==
    /\ call = NoCall
    /\ \E i \in 1..Len(received) :
          IF received[i] = TheDefaultArray
          THEN /\ \E written \in Writes(defaults) : defaults' = written
               /\ UNCHANGED received
          ELSE /\ \E written \in Writes(received[i]) :
                     received' = [received EXCEPT ![i] = written]
               /\ UNCHANGED defaults
    /\ UNCHANGED <<fs, call, reports>>

NextShared == KeepLoadConfig \/ KeepCheckLicenses \/ CallerWrites \/ Return

SpecShared == InitShared /\ [][NextShared]_vars

-----------------------------------------------------------------------------
(* Properties of isLicenseAllowed, checked under SpecAllowed.              *)

\* word occurs in s at some offset, letters compared without regard to case
ContainsIgnoringCase(s, word) ==
    \E k \in 0..(Len(s) - Len(word)) :
        \A j \in 1..Len(word) : UpperChar(CharAt(s, k + j)) = UpperChar(CharAt(word, j))

\* the prohibited words as the documentation lists them
ProhibitedWords == {"GPL", "LGPL", "AGPL", "SSPL", "BUSL", "Copyleft"}

IsProhibited(s) == \E word \in ProhibitedWords : ContainsIgnoringCase(s, word)

AllowedCall == call.op = "isLicenseAllowed"

\* the strings of the allowlist of the current call
AllowlistOfCall == {call.allowedLicenses.items[i].s : i \in 1..Len(call.allowedLicenses.items)}

\* C1: a license that matches a prohibited pattern, in any letter case and
\* anywhere in the string, is not allowed under any allowlist, also one that
\* lists the license itself or a part of it.
ProhibitedPrecedence ==
    (AllowedCall /\ IsProhibited(call.license)) => call.ret = Ret(FALSE)

\* C1 happens: GPL-3.0 is rejected under the allowlist ["GPL-3.0"], and a
\* lower-case gPL under an allowlist that holds a part of it.
ProhibitedPrecedenceWitness ==
    /\ AllowedCall
    /\ call.license = "GPL-3.0"
    /\ call.allowedLicenses = Arr(<<Str("GPL-3.0")>>)
    /\ call.ret = Ret(FALSE)

\* C7: the empty license and the UNKNOWN sentinel are not allowed under any
\* allowlist, also one that lists UNKNOWN or the empty string.
MissingLicenseRejected ==
    (AllowedCall /\ call.license \in {"", "UNKNOWN"}) => call.ret = Ret(FALSE)

\* C7 happens: UNKNOWN is rejected under an allowlist that lists UNKNOWN and
\* the empty string.
MissingLicenseRejectedWitness ==
    /\ AllowedCall
    /\ call.license = "UNKNOWN"
    /\ call.allowedLicenses = Arr(<<Str("UNKNOWN"), Str("")>>)
    /\ call.ret = Ret(FALSE)

\* C8: a license that is present and matches no prohibited pattern is allowed
\* exactly when some allowlist entry occurs in it as a substring, letter case
\* ignored; the call returns and does not throw.
SubstringSemantics ==
    (AllowedCall /\ call.license \notin {"", "UNKNOWN"} /\ ~IsProhibited(call.license))
        => call.ret = Ret(\E entry \in AllowlistOfCall :
                              ContainsIgnoringCase(call.license, entry))

\* C8 happens: the compound MIT OR Apache-2.0 is allowed through its MIT token,
\* the second entry of the allowlist.
SubstringSemanticsWitness ==
    /\ AllowedCall
    /\ call.license = "MIT OR Apache-2.0"
    /\ call.allowedLicenses = Arr(<<Str("UNKNOWN"), Str("MIT")>>)
    /\ call.ret = Ret(TRUE)

-----------------------------------------------------------------------------
(* Properties of the full run, checked under Spec.                         *)

Range(seq) == {seq[i] : i \in 1..Len(seq)}

CheckCall == call.op = "checkLicenses"

\* the report of a checkLicenses call that returned
Report == call.ret.val

RootConfigPath == join(cwd, ".licenserc.json")

\* the configuration document at path holds an allowedLicenses list of strings
IsStringList(v) == v.t = "arr" /\ \A i \in 1..Len(v.items) : v.items[i].t = "str"

WellFormedConfigAt(path) ==
    /\ path \in DOMAIN fs
    /\ fs[path].kind = "file"
    /\ fs[path].readable
    /\ fs[path].content.t = "obj"
    /\ IsStringList(GetProp(fs[path].content, "allowedLicenses"))

ConfiguredListAt(path) == GetProp(fs[path].content, "allowedLicenses")

\* the path a loadConfig call reads
PathOfCall == IF call.configPath = Undefined THEN RootConfigPath ELSE call.configPath.s

\* the nine built-in entries as the documentation lists them
DocumentedDefaults ==
    Arr(<<Str("MIT"), Str("Apache-2.0"), Str("BSD-2-Clause"), Str("BSD-3-Clause"),
          Str("ISC"), Str("0BSD"), Str("CC0-1.0"), Str("Python-2.0"), Str("Unlicense")>>)

\* the directory names the documentation says discovery skips
DocumentedExcluded ==
    {"node_modules", ".git", ".turbo", ".next", "dist", "coverage", "build"}

\* the path lies in, or is, a directory of an excluded name below the root
UnderExcluded(path) ==
    \E name \in DocumentedExcluded : includes(path \o "/", "/" \o name \o "/")

\* the directories that hold a file named package.json
ManifestDirs ==
    {d \in DOMAIN fs :
        /\ fs[d].kind = "dir"
        /\ join(d, "package.json") \in DOMAIN fs
        /\ fs[join(d, "package.json")].kind = "file"}

\* the names the descriptor of directory d declares under dependencies
Declared(d) ==
    LET doc == fs[join(d, "package.json")].content
        deps == GetProp(doc, "dependencies")
    IN  IF doc.t = "obj" /\ deps.t = "obj" THEN Range(deps.keys) ELSE {}

\* the installed descriptor of name under d is a readable JSON object
InstalledReadable(d, name) ==
    LET path == join(join(join(d, "node_modules"), name), "package.json")
    IN  /\ path \in DOMAIN fs
        /\ fs[path].kind = "file"
        /\ fs[path].readable
        /\ fs[path].content.t = "obj"

\* the keys of a licenses mapping that belong to dependency name
KeysOf(licenses, name) ==
    {i \in 1..Len(licenses) :
        SubSeq(licenses[i].key, 1, Len(name) + 1) = name \o "@"}

\* license, a JavaScript value, passes the documented allow check under the
\* list of strings allowed
AllowedUnder(license, allowed) ==
    /\ license.t = "str"
    /\ license.s \notin {"", "UNKNOWN"}
    /\ ~IsProhibited(license.s)
    /\ \E i \in 1..Len(allowed.items) : ContainsIgnoringCase(license.s, allowed.items[i].s)

\* C2: in every report the total is the sum of the allowed and the violation
\* counts and the number of keys of the licenses mapping.
SummaryInvariant ==
    (CheckCall /\ ~call.ret.threw) =>
        /\ Report.summary.total = Report.summary.allowed + Report.summary.violations
        /\ Report.summary.total = Cardinality({Report.licenses[i].key : i \in 1..Len(Report.licenses)})

\* C2 happens: a report with an allowed package and a violation.
SummaryInvariantWitness ==
    /\ CheckCall
    /\ ~call.ret.threw
    /\ Report.summary.allowed >= 1
    /\ Report.summary.violations >= 1
    /\ Report.summary.total = 2

\* C3: checkLicenses returns a report and never throws, whatever the files hold.
NeverThrows == CheckCall => ~call.ret.threw

\* C4: every production dependency declared by a descriptor of the tree outside
\* the excluded directories, the root's included, is in the report when its
\* installed descriptor is readable.
AllDependenciesChecked ==
    (CheckCall /\ ~call.ret.threw) =>
        \A d \in ManifestDirs : ~UnderExcluded(d) =>
            \A name \in Declared(d) :
                InstalledReadable(d, name) => KeysOf(Report.licenses, name) # {}

\* C5: nothing in or below a directory of an excluded name is discovered, and a
\* dependency that only descriptors in such directories declare is in no report.
DiscoveryExclusion ==
    /\ (call.op \in {"findAllPackageJsonDirs", "getWorkspaceDirs"} /\ ~call.ret.threw)
          => \A dir \in Range(call.ret.val) : ~UnderExcluded(dir)
    /\ (CheckCall /\ ~call.ret.threw) =>
          \A d \in ManifestDirs : UnderExcluded(d) =>
              \A name \in Declared(d) :
                  (\A other \in ManifestDirs : name \in Declared(other) => UnderExcluded(other))
                      => KeysOf(Report.licenses, name) = {}

\* C5 happens: a descriptor sits in app/build, two levels below the root, and
\* discovery returns app and the root only.
DiscoveryExclusionWitness ==
    /\ call.op = "findAllPackageJsonDirs"
    /\ join(cwd, "app/build/package.json") \in DOMAIN fs
    /\ call.ret = Ret(<<join(cwd, "app"), cwd>>)

\* C6: getWorkspaceDirs never returns the root and returns every other
\* directory that discovery finds.
RootNeverWorkspace ==
    call.op = "getWorkspaceDirs" =>
        /\ ~call.ret.threw
        /\ cwd \notin Range(call.ret.val)
        /\ Range(call.ret.val) = Range(findAllPackageJsonDirs(fs, cwd).val) \ {cwd}

\* C6 happens: the root has a descriptor of its own and a workspace below it
\* is returned.
RootNeverWorkspaceWitness ==
    /\ call.op = "getWorkspaceDirs"
    /\ cwd \in ManifestDirs
    /\ call.ret = Ret(<<join(cwd, "app")>>)

\* C9: loadConfig returns the nine defaults whenever the configuration file is
\* missing, unreadable, not JSON, of the wrong shape or without the field.
DefaultsOnBadConfig ==
    (call.op = "loadConfig" /\ ~WellFormedConfigAt(PathOfCall))
        => call.ret = Ret(DocumentedDefaults)

\* C10: a configured allowedLicenses list is returned as it is, and a run
\* classifies with it alone and reports it as allowedLicenses.
CustomListReplacesDefaults ==
    /\ (call.op = "loadConfig" /\ WellFormedConfigAt(PathOfCall))
          => call.ret = Ret(ConfiguredListAt(PathOfCall))
    /\ (CheckCall /\ ~call.ret.threw /\ WellFormedConfigAt(RootConfigPath)) =>
          /\ Report.allowedLicenses = ConfiguredListAt(RootConfigPath)
          /\ \A i \in 1..Len(Report.licenses) :
                (\E j \in 1..Len(Report.violations) :
                     Report.violations[j].package = Report.licenses[i].key)
                <=> ~AllowedUnder(Report.licenses[i].info.license,
                                  ConfiguredListAt(RootConfigPath))

\* C10 happens: under the configured list ["MIT"] an Apache-2.0 package, which
\* the defaults would allow, is reported as a violation.
CustomListReplacesDefaultsWitness ==
    /\ CheckCall
    /\ ~call.ret.threw
    /\ WellFormedConfigAt(RootConfigPath)
    /\ Report.allowedLicenses = Arr(<<Str("MIT")>>)
    /\ Report.summary.violations = 1
    /\ Report.violations[1].license = Str("Apache-2.0")

\* the records of the violations list that name key
RecordsOf(violations, key) == {j \in 1..Len(violations) : violations[j].package = key}

\* C11: in every report a key of the licenses mapping has a violation record
\* exactly when isLicenseAllowed rejects its license under the reported
\* allowlist, and then exactly one; every record names a key of the mapping,
\* and the violations count is the length of the list.
ViolationsMatchAllowCheck ==
    (CheckCall /\ ~call.ret.threw) =>
        /\ \A i \in 1..Len(Report.licenses) :
              LET rejected == isLicenseAllowed(Report.licenses[i].info.license,
                                               Report.allowedLicenses) = Ret(FALSE)
                  records == RecordsOf(Report.violations, Report.licenses[i].key)
              IN  Cardinality(records) = IF rejected THEN 1 ELSE 0
        /\ \A j \in 1..Len(Report.violations) :
              \E i \in 1..Len(Report.licenses) :
                  Report.licenses[i].key = Report.violations[j].package
        /\ Len(Report.violations) = Report.summary.violations

\* C11 happens: of two packages the MIT one has no record and the GPL-3.0 one
\* has the only record.
ViolationsMatchAllowCheckWitness ==
    /\ CheckCall
    /\ ~call.ret.threw
    /\ Len(Report.licenses) = 2
    /\ Report.licenses[1].info.license = Str("MIT")
    /\ Report.licenses[2].info.license = Str("GPL-3.0")
    /\ Len(Report.violations) = 1
    /\ Report.violations[1].package = Report.licenses[2].key

\* the merged mapping of a getLicenses call or of a report
MergeCall == call.op = "getLicenses" \/ CheckCall

Merged == IF CheckCall THEN Report.licenses ELSE call.ret.val

\* the workspaces in discovery order and what each resolves on its own
DiscoveryOrder == getWorkspaceDirs(fs).val

ResolvedBy(j) == getLicensesFromPackageJson(fs, DiscoveryOrder[j]).val

\* what each workspace resolves on its own, in discovery order
ResolvedEach == [j \in 1..Len(DiscoveryOrder) |-> ResolvedBy(j)]

\* the workspaces, by their place in discovery order, that resolve key
Writers(resolved, key) ==
    {j \in 1..Len(resolved) : \E i \in 1..Len(resolved[j]) : resolved[j][i].key = key}

LastWriter(resolved, key) ==
    CHOOSE j \in Writers(resolved, key) : \A other \in Writers(resolved, key) : other <= j

InfoBy(resolved, j, key) ==
    LET i == CHOOSE i \in 1..Len(resolved[j]) : resolved[j][i].key = key
    IN  resolved[j][i].info

\* C12: the merged mapping holds every key some workspace resolves exactly
\* once, with the value of the last workspace in discovery order that resolves
\* it, holds no other key, and the total of a report counts each key once.
LastWriterWins ==
    (MergeCall /\ ~call.ret.threw) =>
        LET resolved == ResolvedEach
            merged == Merged
        IN  /\ \A i \in 1..Len(merged) :
                  /\ Writers(resolved, merged[i].key) # {}
                  /\ merged[i].info =
                        InfoBy(resolved, LastWriter(resolved, merged[i].key), merged[i].key)
                  /\ \A other \in 1..Len(merged) :
                        merged[other].key = merged[i].key => other = i
            /\ \A j \in 1..Len(resolved) : \A i \in 1..Len(resolved[j]) :
                  \E m \in 1..Len(merged) : merged[m].key = resolved[j][i].key
            /\ CheckCall =>
                  Report.summary.total =
                      Cardinality(UNION {{resolved[j][i].key : i \in 1..Len(resolved[j])} :
                                            j \in 1..Len(resolved)})

\* C12 happens: app and lib, discovered in this order, both resolve
\* dep1@1.0.0, app with MIT and lib with GPL-3.0; the report holds the key once
\* with GPL-3.0 and a total of 1.
LastWriterWinsWitness ==
    /\ CheckCall
    /\ ~call.ret.threw
    /\ DiscoveryOrder = <<join(cwd, "app"), join(cwd, "lib")>>
    /\ ResolvedBy(1) = <<[key |-> "dep1@1.0.0",
                          info |-> [license |-> Str("MIT"), version |-> Str("1.0.0")]]>>
    /\ Report.licenses = <<[key |-> "dep1@1.0.0",
                            info |-> [license |-> Str("GPL-3.0"), version |-> Str("1.0.0")]]>>
    /\ Report.summary.total = 1

ResolveCall == call.op = "getLicensesFromPackageJson"

\* the names under dependencies in the descriptor of workspace d
DependenciesOf(d) ==
    LET text == readFileSync(fs, join(d, "package.json"))
    IN  IF text.threw THEN {}
        ELSE IF text.val.t = "obj" /\ GetProp(text.val, "dependencies").t = "obj"
        THEN Range(GetProp(text.val, "dependencies").keys)
        ELSE {}

InstalledPath(d, name) == join(join(join(d, "node_modules"), name), "package.json")

InstalledText(d, name) == readFileSync(fs, InstalledPath(d, name))

\* the installed descriptor of name under d is found, readable and a JSON
\* document other than null
ReadSuccessfully(d, name) ==
    /\ ~InstalledText(d, name).threw
    /\ InstalledText(d, name).val.t \notin {"invalid", "null"}

Entry(name, license, version) ==
    [key |-> name \o "@" \o JsString(version),
     info |-> [license |-> license, version |-> version]]

\* C13 as stated: every dependency read successfully has the entry
\* name@version with the installed version, UNKNOWN only if the field is
\* absent, and the installed license, UNKNOWN if absent or empty.
InstalledFieldsAsStated ==
    ResolveCall =>
        /\ ~call.ret.threw
        /\ \A name \in DependenciesOf(call.dir) : ReadSuccessfully(call.dir, name) =>
              LET v == GetProp(InstalledText(call.dir, name).val, "version")
                  l == GetProp(InstalledText(call.dir, name).val, "license")
                  version == IF v = Undefined THEN Str("UNKNOWN") ELSE v
                  license == IF l \in {Undefined, Str("")} THEN Str("UNKNOWN") ELSE l
              IN  Entry(name, license, version) \in Range(call.ret.val)

\* C13 amended: every dependency read successfully has the entry name@version
\* with the installed version and license, each UNKNOWN when the field is
\* absent or holds an empty string or another falsy value.
InstalledFieldsOrSentinel ==
    ResolveCall =>
        /\ ~call.ret.threw
        /\ \A name \in DependenciesOf(call.dir) : ReadSuccessfully(call.dir, name) =>
              LET v == GetProp(InstalledText(call.dir, name).val, "version")
                  l == GetProp(InstalledText(call.dir, name).val, "license")
                  version == IF Truthy(v) THEN v ELSE Str("UNKNOWN")
                  license == IF Truthy(l) THEN l ELSE Str("UNKNOWN")
              IN  Entry(name, license, version) \in Range(call.ret.val)

\* C13 happens: the workspace asks for dep1 in the range ^1.0.0, the installed
\* descriptor states an empty version and MIT, and the entry is dep1@UNKNOWN.
InstalledFieldsOrSentinelWitness ==
    /\ ResolveCall
    /\ call.dir = join(cwd, "app")
    /\ ReadSuccessfully(call.dir, "dep1")
    /\ GetProp(InstalledText(call.dir, "dep1").val, "version") = Str("")
    /\ call.ret = Ret(<<Entry("dep1", Str("MIT"), Str("UNKNOWN"))>>)

\* obj with field key set to value v, or without the field when v is Absent
WithField(obj, key, v) ==
    LET keep(k) == k # key
        keys == SelectSeq(obj.keys, keep)
        vals == [i \in 1..Len(keys) |-> GetProp(obj, keys[i])]
    IN  IF v = Absent THEN Obj(keys, vals)
        ELSE Obj(Append(keys, key), Append(vals, v))

\* the filesystem with the devDependencies of the descriptor of d changed to dev
WithDevDependencies(f, d, dev) ==
    LET path == join(d, "package.json")
    IN  IF path \in DOMAIN f /\ f[path].kind = "file" /\ f[path].content.t = "obj"
        THEN [f EXCEPT ![path].content = WithField(@, "devDependencies", dev)]
        ELSE f

DevAlternatives ==
    {Absent, EmptyObj, Null,
     Obj(<<"dep1", "dep2", "dep3">>, <<Str("*"), Str("*"), Str("*")>>)}

\* C14: every key a workspace resolves is name@version for a name under the
\* dependencies of its descriptor, so a package that is only a development
\* dependency, only installed, or only a dependency of a dependency is not
\* there; and the result is the same whatever devDependencies holds.
OnlyProductionDependencies ==
    (ResolveCall /\ ~call.ret.threw) =>
        /\ \A i \in 1..Len(call.ret.val) :
              \E name \in DependenciesOf(call.dir) :
                  call.ret.val[i].key = name \o "@" \o JsString(call.ret.val[i].info.version)
        /\ \A dev \in DevAlternatives :
              getLicensesFromPackageJson(WithDevDependencies(fs, call.dir, dev), call.dir)
                  = call.ret

\* C14 happens: dep1 is a production dependency, dep2 a development one, dep3
\* installed and needed by dep1 only; dep1 alone is resolved.
OnlyProductionDependenciesWitness ==
    /\ ResolveCall
    /\ call.dir = join(cwd, "app")
    /\ DependenciesOf(call.dir) = {"dep1"}
    /\ GetProp(fs[join(call.dir, "package.json")].content, "devDependencies")
          = Obj(<<"dep2">>, <<Str("^1.0.0")>>)
    /\ ReadSuccessfully(call.dir, "dep2")
    /\ ReadSuccessfully(call.dir, "dep3")
    /\ call.ret = Ret(<<Entry("dep1", Str("MIT"), Str("1.0.0"))>>)

\* the filesystem with name taken out of the dependencies of the descriptor of d
WithoutDependency(f, d, name) ==
    LET path == join(d, "package.json")
        deps == GetProp(f[path].content, "dependencies")
    IN  [f EXCEPT ![path].content =
            WithField(@, "dependencies", WithField(deps, name, Absent))]

\* C15: a declared dependency whose installed descriptor is missing,
\* unreadable, unparsable or behind a broken link has no entry, and the result
\* is what it would be if that dependency were not declared, wherever it
\* stands among the declared ones.
DependencyFailureIsolated ==
    ResolveCall =>
        \A name \in DependenciesOf(call.dir) : ~ReadSuccessfully(call.dir, name) =>
            /\ ~call.ret.threw
            /\ KeysOf(call.ret.val, name) = {}
            /\ call.ret = getLicensesFromPackageJson(
                              WithoutDependency(fs, call.dir, name), call.dir)

\* C15 happens: dep1 is a link to a place that is not there, declared before
\* dep2, which is a link into the store, and dep2 alone is resolved.
DependencyFailureIsolatedWitness ==
    /\ ResolveCall
    /\ call.dir = join(cwd, "app")
    /\ DependenciesOf(call.dir) = {"dep1", "dep2"}
    /\ {join(cwd, "app/node_modules/dep1"), join(cwd, "app/node_modules/dep2")}
          \subseteq DOMAIN fs
    /\ fs[join(cwd, "app/node_modules/dep1")].kind = "link"
    /\ ~ReadSuccessfully(call.dir, "dep1")
    /\ fs[join(cwd, "app/node_modules/dep2")].kind = "link"
    /\ call.ret = Ret(<<Entry("dep2", Str("GPL-3.0"), Str("2.0.0"))>>)

\* the descriptor of workspace d is missing, cannot be read or is not JSON
DescriptorUnusable(d) ==
    LET text == readFileSync(fs, join(d, "package.json"))
    IN  text.threw \/ text.val.t = "invalid"

\* the filesystem without the entry at path
RemoveNode(f, path) ==
    LET keep(name) == name # basename(path)
    IN  [p \in DOMAIN f \ {path} |->
            IF p = dirname(path)
            THEN [f[p] EXCEPT !.entries = SelectSeq(@, keep)]
            ELSE f[p]]

\* C16: a workspace whose descriptor is missing, unreadable or unparsable
\* resolves to the empty mapping without a throw, and a full run gives what it
\* would give without that descriptor: the entries of the other workspaces.
WorkspaceFailureIsolated ==
    /\ (ResolveCall /\ DescriptorUnusable(call.dir)) => call.ret = Ret(<<>>)
    /\ MergeCall =>
          \A j \in 1..Len(DiscoveryOrder) : DescriptorUnusable(DiscoveryOrder[j]) =>
              /\ ~call.ret.threw
              /\ Merged = getLicenses(RemoveNode(fs, join(DiscoveryOrder[j], "package.json"))).val
              /\ \A k \in 1..Len(DiscoveryOrder) : \A i \in 1..Len(ResolvedBy(k)) :
                    ResolvedBy(k)[i] \in Range(Merged)

\* C16 happens: the descriptor of app, discovered first, is not JSON, and the
\* report holds the entry of lib.
WorkspaceFailureIsolatedWitness ==
    /\ CheckCall
    /\ ~call.ret.threw
    /\ DiscoveryOrder = <<join(cwd, "app"), join(cwd, "lib")>>
    /\ fs[join(cwd, "app/package.json")].content = InvalidText
    /\ Report.licenses = <<Entry("dep2", Str("GPL-3.0"), Str("2.0.0"))>>

DiscoveryCall == call.op = "findAllPackageJsonDirs"

\* path d is u or lies below it
AtOrBelow(d, u) ==
    d = u \/ (Len(d) > Len(u) /\ SubSeq(d, 1, Len(u) + 1) = u \o "/")

\* the directories that cannot be read
UnreadableDirs == {u \in DOMAIN fs : fs[u].kind = "dir" /\ ~fs[u].readable}

\* the filesystem with directory u readable and empty
Emptied(f, u) ==
    [p \in {q \in DOMAIN f : q = u \/ ~AtOrBelow(q, u)} |->
        IF p = u THEN Dir(<<>>) ELSE f[p]]

\* C17: discovery returns a list and does not throw, the empty list for a root
\* that is not there, is not a directory or cannot be read; nothing at or
\* below a directory that cannot be read is in the list, and the list is what
\* it would be with that directory empty, so the rest of the tree is
\* discovered all the same.
DiscoveryNeverRaises ==
    DiscoveryCall =>
        /\ ~call.ret.threw
        /\ readdirSync(fs, call.dir).threw => call.ret.val = <<>>
        /\ \A u \in UnreadableDirs :
              /\ \A d \in Range(call.ret.val) : ~AtOrBelow(d, u)
              /\ call.ret = findAllPackageJsonDirs(Emptied(fs, u), call.dir)

\* C17 happens: app, which holds two descriptors and is met first, cannot be
\* read, and lib and the root are discovered.
DiscoveryNeverRaisesWitness ==
    /\ DiscoveryCall
    /\ call.dir = cwd
    /\ UnreadableDirs = {join(cwd, "app")}
    /\ join(cwd, "app/sub/package.json") \in DOMAIN fs
    /\ fs[cwd].entries = <<"app", "lib", "package.json">>
    /\ call.ret = Ret(<<join(cwd, "lib"), cwd>>)

\* a name the documentation excludes is among the components of d below root
ExcludedBetween(root, d) ==
    \E name \in DocumentedExcluded :
        includes(SubSeq(d, Len(root) + 1, Len(d)) \o "/", "/" \o name \o "/")

\* the directories discovery from root is to return: real directories at or
\* below root that can be read along with every directory between them and
\* root, with no excluded name on the way, and with an entry package.json that
\* is not a directory
Discoverable(root) ==
    {d \in DOMAIN fs :
        /\ ~readdirSync(fs, root).threw
        /\ AtOrBelow(d, root)
        /\ \A u \in DOMAIN fs : (AtOrBelow(u, root) /\ AtOrBelow(d, u)) =>
              (fs[u].kind = "dir" /\ fs[u].readable)
        /\ ~ExcludedBetween(root, d)
        /\ join(d, "package.json") \in DOMAIN fs
        /\ fs[join(d, "package.json")].kind # "dir"}

\* C18: discovery returns, once each, exactly the readable directories at or
\* below the root that hold a file named package.json and have no excluded
\* name on their path from the root, those inside another workspace included.
DiscoveryComplete ==
    (DiscoveryCall /\ ~call.ret.threw) =>
        /\ Range(call.ret.val) = Discoverable(call.dir)
        /\ Len(call.ret.val) = Cardinality(Discoverable(call.dir))

\* C18 happens: app and app/sub inside it are both discovered, so is web,
\* whose package.json is a link, and the link to app is not followed.
DiscoveryCompleteWitness ==
    /\ DiscoveryCall
    /\ call.dir = cwd
    /\ join(cwd, "lnk") \in DOMAIN fs
    /\ {join(cwd, "app"), join(cwd, "app/sub"), join(cwd, "web")} \subseteq Range(call.ret.val)
    /\ join(cwd, "odd") \notin Range(call.ret.val)
    /\ Len(call.ret.val) = 6

MainCall == call.op = "main"

\* the report of the filesystem: what checkLicenses builds before it prints,
\* as the JSON mode returns it
ReportOfRun == checkLicenses(fs, [json |-> TRUE, verbose |-> FALSE, quiet |-> FALSE])

\* C19: the process exits with 0 when the report has no violations and with 1
\* when it has some, whichever flags are given.
ExitCodeByViolations ==
    (MainCall /\ ~ReportOfRun.threw) =>
        call.ret.exit = IF ReportOfRun.val.violations = <<>> THEN 0 ELSE 1

\* C20: the runs of checkLicenses over one filesystem state return equal
\* reports, summary, allowlist, licenses and violations in the same order,
\* whatever their options and however many runs came before.
Idempotent ==
    /\ \A i \in 1..Len(reports) : \A j \in 1..Len(reports) : reports[i] = reports[j]
    /\ (CheckCall /\ ~call.ret.threw /\ reports # <<>>) => Report = reports[1]

\* the names under dependencies in the descriptor of workspace d, in the order
\* of its text
DeclaredOrder(d) ==
    LET text == readFileSync(fs, join(d, "package.json"))
    IN  IF text.threw THEN <<>>
        ELSE IF text.val.t = "obj" /\ GetProp(text.val, "dependencies").t = "obj"
        THEN GetProp(text.val, "dependencies").keys
        ELSE <<>>

\* the name is the decimal numeral of a number
IsNumeral(name) == \E n \in 0..99 : NatToString(n) = name

NumberOf(name) == CHOOSE n \in 0..99 : NatToString(n) = name

\* name a comes before name b when an object that got them in the order names
\* lists its keys: numerals first, by their number, then the other names as
\* they came
ListedBefore(names, a, b) ==
    IF IsNumeral(a) /\ IsNumeral(b) THEN NumberOf(a) < NumberOf(b)
    ELSE IF IsNumeral(a) \/ IsNumeral(b) THEN IsNumeral(a)
    ELSE IndexOf(names, a) < IndexOf(names, b)

\* the names in the order an object lists them
ListingOrder(names) ==
    [i \in 1..Len(names) |->
        CHOOSE a \in Range(names) :
            Cardinality({b \in Range(names) : ListedBefore(names, b, a)}) = i - 1]

\* the names as they stand
TextOrder(names) == names

\* the keys of the dependencies of workspace d that are read successfully, the
\* names taken in the given order
KeysInOrder(d, names) ==
    LET read(name) == ReadSuccessfully(d, name)
        found == SelectSeq(names, read)
        version(name) == GetProp(InstalledText(d, name).val, "version")
    IN  [i \in 1..Len(found) |->
            found[i] \o "@" \o JsString(IF Truthy(version(found[i])) THEN version(found[i])
                                        ELSE Str("UNKNOWN"))]

RECURSIVE Flatten(_)
Flatten(seqs) == IF seqs = <<>> THEN <<>> ELSE Head(seqs) \o Flatten(Tail(seqs))

RECURSIVE FirstOccurrences(_)
\* the sequence with every element kept where it first stands
FirstOccurrences(seq) ==
    IF seq = <<>> THEN <<>>
    ELSE LET before == FirstOccurrences(SubSeq(seq, 1, Len(seq) - 1))
         IN  IF seq[Len(seq)] \in Range(before) THEN before
             ELSE Append(before, seq[Len(seq)])

\* the keys in first-insertion order: workspaces in discovery order, the
\* dependencies of each in the order Order gives to the names of its descriptor
InsertionOrder(Order(_)) ==
    LET dirs == DiscoveryOrder
    IN  FirstOccurrences(Flatten([j \in 1..Len(dirs) |->
            KeysInOrder(dirs[j], Order(DeclaredOrder(dirs[j])))]))

\* the keys of the report's licenses mapping in its order, and those among
\* them whose license the allow check does not pass
ReportKeys == [i \in 1..Len(Report.licenses) |-> Report.licenses[i].key]

RejectedKeys ==
    LET rejected(key) ==
            \E i \in 1..Len(Report.licenses) :
                /\ Report.licenses[i].key = key
                /\ isLicenseAllowed(Report.licenses[i].info.license,
                                    Report.allowedLicenses) # Ret(TRUE)
    IN  SelectSeq(ReportKeys, rejected)

ViolationKeys == [j \in 1..Len(Report.violations) |-> Report.violations[j].package]

\* C21 as stated: the violations are the rejected keys of the licenses
\* mapping in its order, and that order is workspaces in discovery order and,
\* within a workspace, dependencies as the text of its descriptor declares them.
ViolationOrderAsDeclared ==
    (CheckCall /\ ~call.ret.threw) =>
        /\ ViolationKeys = RejectedKeys
        /\ ReportKeys = InsertionOrder(TextOrder)

\* C21 amended: the violations are the rejected keys of the licenses mapping
\* in its order, and that order is workspaces in discovery order and, within a
\* workspace, dependencies as the parsed descriptor lists them: names that are
\* numerals first, by their number, then the other names as declared.
ViolationOrder ==
    (CheckCall /\ ~call.ret.threw) =>
        /\ ViolationKeys = RejectedKeys
        /\ ReportKeys = InsertionOrder(ListingOrder)

\* C21 happens: api, discovered first, declares dep2 before 9 and resolves 9
\* first; app declares dep1 before 10 and resolves 10 first; dep1 is allowed
\* and the three others are the violations, in the order of the mapping.
ViolationOrderWitness ==
    /\ CheckCall
    /\ ~call.ret.threw
    /\ DiscoveryOrder = <<join(cwd, "api"), join(cwd, "app")>>
    /\ DeclaredOrder(join(cwd, "app")) = <<"dep1", "10">>
    /\ ReportKeys = <<"9@1.0.0", "dep2@1.0.0", "10@1.0.0", "dep1@1.0.0">>
    /\ ViolationKeys = <<"9@1.0.0", "dep2@1.0.0", "10@1.0.0">>

\* the configuration file at the root holds a JSON object
ConfigIsObject ==
    /\ RootConfigPath \in DOMAIN fs
    /\ fs[RootConfigPath].kind = "file"
    /\ fs[RootConfigPath].readable
    /\ fs[RootConfigPath].content.t = "obj"

\* the filesystem with the fields excludedPackages and notes of the
\* configuration file set to the given values, Absent leaving a field out
WithConfigFields(f, excluded, notes) ==
    [f EXCEPT ![RootConfigPath].content =
        WithField(WithField(@, "excludedPackages", excluded), "notes", notes)]

ExcludedAlternatives == {Absent, Arr(<<Str("dep1")>>), Str("dep1")}

NotesAlternatives == {Absent, Obj(<<"dep1">>, <<Str("approved by legal")>>), Null}

\* the names that excludedPackages of the configuration file lists
ExcludedNames ==
    LET excluded == GetProp(fs[RootConfigPath].content, "excludedPackages")
    IN  IF excluded.t = "arr"
        THEN {excluded.items[i].s : i \in {j \in 1..Len(excluded.items) :
                                               excluded.items[j].t = "str"}}
        ELSE {}

\* C22: whatever the configuration file holds under excludedPackages and
\* notes, loadConfig and a run give the same outcome; a package that
\* excludedPackages names is in the report when it is resolved and has a
\* violation record when its license is not allowed.
InertConfigFields ==
    ConfigIsObject =>
        /\ (call.op = "loadConfig" /\ call.configPath = Undefined) =>
              \A excluded \in ExcludedAlternatives : \A notes \in NotesAlternatives :
                  loadConfig(WithConfigFields(fs, excluded, notes), Undefined) = call.ret
        /\ CheckCall =>
              \A excluded \in ExcludedAlternatives : \A notes \in NotesAlternatives :
                  checkLicenses(WithConfigFields(fs, excluded, notes), call.options)
                      = call.ret
        /\ (CheckCall /\ ~call.ret.threw) =>
              \A name \in ExcludedNames : \A d \in Range(DiscoveryOrder) :
                  (name \in DependenciesOf(d) /\ ReadSuccessfully(d, name)) =>
                      \E i \in KeysOf(Report.licenses, name) :
                          isLicenseAllowed(Report.licenses[i].info.license,
                                           Report.allowedLicenses) # Ret(TRUE)
                              => RecordsOf(Report.violations, Report.licenses[i].key) # {}

\* C22 happens: the configuration file names dep1 under excludedPackages, dep1
\* is installed under GPL-3.0, and the report counts it and has its violation.
InertConfigFieldsWitness ==
    /\ CheckCall
    /\ ~call.ret.threw
    /\ ConfigIsObject
    /\ ExcludedNames = {"dep1"}
    /\ Report.summary = [total |-> 1, allowed |-> 0, violations |-> 1]
    /\ Report.violations[1].package = "dep1@1.0.0"
    /\ Report.violations[1].license = Str("GPL-3.0")

\* the key under which dependency name of workspace d is resolved
KeyOf(d, name) ==
    LET version == GetProp(InstalledText(d, name).val, "version")
    IN  name \o "@" \o JsString(IF Truthy(version) THEN version ELSE Str("UNKNOWN"))

\* dependency name of workspace d is declared and its installed descriptor is
\* read successfully and has no license field
WithoutLicenseField(d, name) ==
    /\ name \in DependenciesOf(d)
    /\ ReadSuccessfully(d, name)
    /\ GetProp(InstalledText(d, name).val, "license") = Undefined

\* the report holds key with the license UNKNOWN and a violation record of it
ReportedUnknown(key) ==
    /\ \E i \in 1..Len(Report.licenses) :
          /\ Report.licenses[i].key = key
          /\ Report.licenses[i].info.license = Str("UNKNOWN")
    /\ \E r \in RecordsOf(Report.violations, key) :
          Report.violations[r].license = Str("UNKNOWN")

\* C23 as stated: in every report a declared dependency whose installed
\* descriptor has no license field is a violation with the license UNKNOWN,
\* whatever the allowlist.
MissingLicenseReported ==
    (CheckCall /\ ~call.ret.threw) =>
        \A d \in Range(DiscoveryOrder) : \A name \in DependenciesOf(d) :
            WithoutLicenseField(d, name) => ReportedUnknown(KeyOf(d, name))

\* C23 amended: in every report a declared dependency whose installed
\* descriptor has no license field is a violation with the license UNKNOWN,
\* whatever the allowlist, unless a workspace discovered later resolves the
\* same name and version from a descriptor that has a license field.
MissingLicenseReportedUnlessOverwritten ==
    (CheckCall /\ ~call.ret.threw) =>
        LET dirs == DiscoveryOrder
        IN  \A j \in 1..Len(dirs) : \A name \in DependenciesOf(dirs[j]) :
                (/\ WithoutLicenseField(dirs[j], name)
                 /\ \A k \in (j + 1)..Len(dirs) : \A other \in DependenciesOf(dirs[k]) :
                        (/\ ReadSuccessfully(dirs[k], other)
                         /\ KeyOf(dirs[k], other) = KeyOf(dirs[j], name))
                            => WithoutLicenseField(dirs[k], other))
                    => ReportedUnknown(KeyOf(dirs[j], name))

\* C23 happens: the allowlist of the configuration file lists UNKNOWN, the
\* installed descriptor of dep1 has no license field, and dep1 is the
\* violation of the report, with the license UNKNOWN.
MissingLicenseReportedWitness ==
    /\ CheckCall
    /\ ~call.ret.threw
    /\ Report.allowedLicenses = Arr(<<Str("UNKNOWN"), Str("")>>)
    /\ WithoutLicenseField(join(cwd, "app"), "dep1")
    /\ Report.summary = [total |-> 1, allowed |-> 0, violations |-> 1]
    /\ Report.violations =
          <<[package |-> "dep1@1.0.0", license |-> Str("UNKNOWN"), version |-> Str("1.0.0")]>>

\* a run in quiet mode that does not print the report as JSON
QuietCall == CheckCall /\ call.options.quiet /\ ~call.options.json

\* C24: a quiet run whose report has no violations writes nothing, to stdout
\* or to stderr, with or without verbose; a quiet run that writes anything is
\* over a tree whose report has violations.
QuietWhenCompliant ==
    QuietCall =>
        /\ (~call.ret.threw /\ Report.violations = <<>>) =>
              (call.ret.stdout = <<>> /\ call.ret.stderr = <<>>)
        /\ (call.ret.stdout # <<>> \/ call.ret.stderr # <<>>) =>
              (~ReportOfRun.threw /\ ReportOfRun.val.violations # <<>>)

\* C24 happens: a quiet and verbose run over a tree with a workspace and an
\* allowed package returns without a line of output.
QuietWhenCompliantWitness ==
    /\ QuietCall
    /\ call.options.verbose
    /\ ~call.ret.threw
    /\ DiscoveryOrder # <<>>
    /\ Report.summary = [total |-> 1, allowed |-> 1, violations |-> 0]
    /\ call.ret.stdout = <<>>
    /\ call.ret.stderr = <<>>

\* C25: whatever its options, a run over one filesystem state returns the
\* report that a run in JSON mode returns over that state.
ReportIndependentOfOptions ==
    CheckCall =>
        /\ call.ret.threw = ReportOfRun.threw
        /\ ~call.ret.threw => Report = ReportOfRun.val

WalkCall == call.op = "walk"

\* the directory that the path read at place i of the walk stands for
RealDir(i) == Canonical(fs, call.reads[i])

\* C26: discovery comes to an end on every tree, links and cycles of links
\* included: every step is counted and a walk takes at most two steps for each
\* node of the tree; no directory is read twice, none is reached through an
\* entry that is a link, none is in the results twice, and the results at the
\* end are those of findAllPackageJsonDirs.
WalkTerminates ==
    WalkCall =>
        /\ call.steps <= 2 * Cardinality(DOMAIN fs)
        /\ \A i \in 1..Len(call.reads) : \A j \in 1..Len(call.reads) :
              RealDir(i) = RealDir(j) => i = j
        /\ \A i \in 2..Len(call.reads) :
              /\ ~RealDir(i).threw
              /\ RealDir(i).val = join(Canonical(fs, dirname(call.reads[i])).val,
                                       basename(call.reads[i]))
              /\ fs[RealDir(i).val].kind = "dir"
        /\ \A i \in 1..Len(call.results) : \A j \in 1..Len(call.results) :
              call.results[i] = call.results[j] => i = j
        /\ call.stack = <<>> => Ret(call.results) = findAllPackageJsonDirs(fs, call.root)

\* C26 happens: the walk from the root of the tree whose links close cycles
\* has ended, having read the four real directories and met the five links.
WalkTerminatesWitness ==
    /\ WalkCall
    /\ call.root = cwd
    /\ call.stack = <<>>
    /\ {join(cwd, "app/loop"), join(cwd, "self"), join(cwd, "lib/a"), join(cwd, "lib/b"),
        join(cwd, "app/sub/up")} \subseteq {p \in DOMAIN fs : fs[p].kind = "link"}
    /\ Len(call.reads) = 4
    /\ Len(call.results) = 4

\* the configuration file at path holds the empty allowlist
EmptyListAt(path) == WellFormedConfigAt(path) /\ ConfiguredListAt(path) = Arr(<<>>)

\* C27: with the empty allowlist configured, loadConfig returns the empty
\* list, under which no license is allowed, and every package of a report is
\* a violation.
EmptyAllowlistHonoured ==
    /\ (call.op = "loadConfig" /\ EmptyListAt(PathOfCall)) =>
          /\ call.ret = Ret(Arr(<<>>))
          /\ \A license \in LicenseStrings :
                isLicenseAllowed(Str(license), call.ret.val) = Ret(FALSE)
    /\ (CheckCall /\ ~call.ret.threw /\ EmptyListAt(RootConfigPath)) =>
          /\ Report.allowedLicenses = Arr(<<>>)
          /\ Report.summary.allowed = 0
          /\ Report.summary.violations = Len(Report.licenses)
          /\ \A i \in 1..Len(Report.licenses) :
                RecordsOf(Report.violations, Report.licenses[i].key) # {}

\* C27 happens: under the empty allowlist an MIT package, which the defaults
\* allow, is the violation of the report.
EmptyAllowlistHonouredWitness ==
    /\ CheckCall
    /\ ~call.ret.threw
    /\ EmptyListAt(RootConfigPath)
    /\ Report.summary = [total |-> 1, allowed |-> 0, violations |-> 1]
    /\ Report.violations[1].license = Str("MIT")

\* the entries of an allowlist, without their order and multiplicity
EntriesOf(allowedLicenses) == Range(allowedLicenses.items)

\* the licenses whose results are compared across allowlists: the named ones
\* and short strings that the entries "" and "g" match or miss
ComparedLicenses == NamedLicenses \cup {"", "g", "G", "P", "Lg"}

\* C28: a license allowed under an allowlist is allowed under every allowlist
\* that holds all of its entries, and two allowlists with the same entries, in
\* any order and any number of times, give the same result.
AllowlistMonotone ==
    (AllowedCall /\ call.license \in ComparedLicenses) =>
        \A other \in AllowLists :
            /\ (/\ call.ret = Ret(TRUE)
                /\ EntriesOf(call.allowedLicenses) \subseteq EntriesOf(other))
                  => isLicenseAllowed(Str(call.license), other) = Ret(TRUE)
            /\ EntriesOf(call.allowedLicenses) = EntriesOf(other)
                  => isLicenseAllowed(Str(call.license), other) = call.ret

\* C28 happens: MIT is allowed under an allowlist that holds MIT after an
\* entry that does not match, as it is under the list of MIT alone.
AllowlistMonotoneWitness ==
    /\ AllowedCall
    /\ call.license = "MIT"
    /\ call.allowedLicenses = Arr(<<Str("GPL-3.0"), Str("MIT")>>)
    /\ call.ret = Ret(TRUE)
    /\ isLicenseAllowed(Str("MIT"), Arr(<<Str("MIT")>>)) = Ret(TRUE)

\* the value, printed, is not the empty text
NonEmpty(v) == JsString(v) # ""

EndsWith(s, suffix) ==
    /\ Len(s) >= Len(suffix)
    /\ SubSeq(s, Len(s) - Len(suffix) + 1, Len(s)) = suffix

\* C29: in every report each entry of the licenses mapping has a license and a
\* version that are not empty and a key that ends with "@" and its version, and
\* each violation record carries the license and version stored under its key.
ReportEntriesWellFormed ==
    (CheckCall /\ ~call.ret.threw) =>
        /\ \A i \in 1..Len(Report.licenses) :
              /\ NonEmpty(Report.licenses[i].info.license)
              /\ NonEmpty(Report.licenses[i].info.version)
              /\ EndsWith(Report.licenses[i].key,
                          "@" \o JsString(Report.licenses[i].info.version))
        /\ \A j \in 1..Len(Report.violations) :
              \E i \in 1..Len(Report.licenses) :
                  /\ Report.licenses[i].key = Report.violations[j].package
                  /\ Report.licenses[i].info.license = Report.violations[j].license
                  /\ Report.licenses[i].info.version = Report.violations[j].version

\* C30: a call that falls back to the defaults yields the nine built-in
\* entries, whatever the caller did to the lists it was given before.
DefaultsStable ==
    /\ (call.op = "loadConfig" /\ call.fallback)
          => call.ret = Ret(DEFAULT_ALLOWED_LICENSES)
    /\ (call.op = "checkLicenses" /\ call.fallback /\ ~call.ret.threw)
          => call.ret.val.allowedLicenses = DEFAULT_ALLOWED_LICENSES

====
